---- MODULE Spec2Model ----
(***************************************************************************)
(* A model of goes2go's catalog selection (goes2go/data.py) and of the     *)
(* visibility check of the inverse coordinate transform                    *)
(* (goes2go/tools.py).                                                     *)
(*                                                                         *)
(* Python values are tagged records:  [none |-> TRUE], [int |-> n],        *)
(* [str |-> <<chars>>], [list |-> <<ints>>].  Python strings are sequences *)
(* of one-character strings so that upper(), startswith(), s[-1] and +     *)
(* are computed.  Timestamps are integer ticks; an archive directory holds *)
(* HourTicks ticks.                                                        *)
(***************************************************************************)
EXTENDS Integers, Sequences, FiniteSets, TLC

VARIABLES archive,   \* the files in the object store (the S3 buckets)
          call,      \* the arguments of the last call
          outcome,   \* "none", "ok" (a value is returned), "nodata" (None), "error"
          errat,     \* where the error was raised ("" when none)
          result,    \* the rows of the returned DataFrame / the returned values
          trace,     \* the steps the call went through, in order
          disk,      \* the local copies under save_dir: [file, copy], copy is
                     \* "old" (there before the last call) or "new" (written by it)
          fetched,   \* the files the last call has fetched with fs.get
          pool,      \* the thread pool of a running _download: the position
                     \* of the calling thread and of every task
          dirs       \* the directories that exist under save_dir

vars == <<archive, call, outcome, errat, result, trace, disk, fetched, pool, dirs>>

----------------------------------------------------------------------------
(* Bounds *)
MaxFiles == 2      \* files in the archive
ParamFiles == 1    \* files in the archive when the parameter checks are explored
MaxT == 3          \* start timestamps of files are 0..MaxT
MaxWithin == 2     \* the look-around window is 0..MaxWithin
HourTicks == 2     \* ticks per hourly archive directory

----------------------------------------------------------------------------
(* Python values *)
PyNone == [none |-> TRUE]
PyInt(n) == [int |-> n]
PyStr(s) == [str |-> s]
PyList(l) == [list |-> l]
IsNone(v) == DOMAIN v = {"none"}
IsInt(v) == DOMAIN v = {"int"}
IsStr(v) == DOMAIN v = {"str"}
IsList(v) == DOMAIN v = {"list"}

(* str.upper() *)
LowerToUpper ==
  [a |-> "A", b |-> "B", c |-> "C", d |-> "D", e |-> "E", f |-> "F",
   g |-> "G", h |-> "H", i |-> "I", j |-> "J", k |-> "K", l |-> "L",
   m |-> "M", n |-> "N", o |-> "O", p |-> "P", q |-> "Q", r |-> "R",
   s |-> "S", t |-> "T", u |-> "U", v |-> "V", w |-> "W", x |-> "X",
   y |-> "Y", z |-> "Z"]
UpperChar(ch) == IF ch \in DOMAIN LowerToUpper THEN LowerToUpper[ch] ELSE ch
Upper(s) == [ix \in 1..Len(s) |-> UpperChar(s[ix])]

(* str.startswith() *)
StartsWith(s, pre) == Len(s) >= Len(pre) /\ SubSeq(s, 1, Len(pre)) = pre

(* s[-1] as a one-character string *)
LastChar(s) == <<s[Len(s)]>>

(* str(n) for a two-digit number *)
DigitChar == <<"0", "1", "2", "3", "4", "5", "6", "7", "8", "9">>
StrOfInt(n) == <<DigitChar[(n \div 10) + 1], DigitChar[(n % 10) + 1]>>

(* str(v) of a Python value *)
PyToStr(v) == IF IsStr(v) THEN v.str
              ELSE IF IsInt(v) THEN StrOfInt(v.int)
              ELSE <<"N", "o", "n", "e">>

----------------------------------------------------------------------------
(* String literals *)
s_noaa_goes16 == <<"n","o","a","a","-","g","o","e","s","1","6">>
s_noaa_goes17 == <<"n","o","a","a","-","g","o","e","s","1","7">>
s_noaa_goes18 == <<"n","o","a","a","-","g","o","e","s","1","8">>
s_ABI == <<"A","B","I">>
s_GLM == <<"G","L","M">>
s_C == <<"C">>
s_F == <<"F">>
s_M == <<"M">>
s_M1 == <<"M","1">>
s_M2 == <<"M","2">>
s_m1 == <<"m","1">>
s_M3 == <<"M","3">>
s_CONUS == <<"C","O","N","U","S">>
s_FULL == <<"F","U","L","L">>
s_FULLDISK == <<"F","U","L","L","D","I","S","K">>
s_FULL_DISK == <<"F","U","L","L"," ","D","I","S","K">>
s_MESOSCALE == <<"M","E","S","O","S","C","A","L","E">>
s_Rad == <<"A","B","I","-","L","1","b","-","R","a","d">>
s_RadC == s_Rad \o s_C
s_RadF == s_Rad \o s_F
s_RadM == s_Rad \o s_M
s_MCMIP == <<"A","B","I","-","L","2","-","M","C","M","I","P">>
s_MCMIPC == s_MCMIP \o s_C
s_MCMIPF == s_MCMIP \o s_F
s_MCMIPM == s_MCMIP \o s_M
s_LCFA == <<"G","L","M","-","L","2","-","L","C","F","A">>
s_ABIC == s_ABI \o s_C
s_ABIF == s_ABI \o s_F
s_ABIM == s_ABI \o s_M

----------------------------------------------------------------------------
(* Parameter options and aliases: data.py *)
_satellite ==
  << [key |-> s_noaa_goes16,
      aliases |-> <<PyInt(16), PyStr(<<"1","6">>), PyStr(<<"G","1","6">>),
                    PyStr(<<"E","A","S","T">>), PyStr(<<"G","O","E","S","1","6">>)>>],
     [key |-> s_noaa_goes17,
      aliases |-> <<PyInt(17), PyStr(<<"1","7">>), PyStr(<<"G","1","7">>),
                    PyStr(<<"W","E","S","T">>), PyStr(<<"G","O","E","S","1","7">>)>>],
     [key |-> s_noaa_goes18,
      aliases |-> <<PyInt(18), PyStr(<<"1","8">>), PyStr(<<"G","1","8">>),
                    PyStr(<<"W","E","S","T">>), PyStr(<<"G","O","E","S","1","8">>)>>] >>

_domain ==
  << [key |-> s_C, aliases |-> <<PyStr(s_CONUS)>>],
     [key |-> s_F, aliases |-> <<PyStr(s_FULL), PyStr(s_FULLDISK), PyStr(s_FULL_DISK)>>],
     [key |-> s_M, aliases |-> <<PyStr(s_MESOSCALE), PyStr(s_M1), PyStr(s_M2)>>] >>

(* The product directories of the bucket (a representative part of them)   *)
(* and the aliases added to them.                                          *)
_product ==
  << [key |-> s_RadC, aliases |-> <<>>],
     [key |-> s_RadM, aliases |-> <<>>],
     [key |-> s_LCFA, aliases |-> <<PyStr(s_GLM)>>],
     [key |-> s_MCMIPC, aliases |-> <<PyStr(s_ABIC)>>],
     [key |-> s_MCMIPF, aliases |-> <<PyStr(s_ABIF)>>],
     [key |-> s_MCMIPM, aliases |-> <<PyStr(s_ABIM)>>] >>

(* `v in dict`: v is one of the keys *)
InKeys(v, table) == IsStr(v) /\ \E ix \in 1..Len(table) : table[ix].key = v.str

(* `v in aliases` *)
InList(v, lst) == \E ix \in 1..Len(lst) : lst[ix] = v

(* for key, aliases in table.items(): if v in aliases: v = key *)
RECURSIVE AliasLoop(_, _, _)
AliasLoop(v, table, ix) ==
  IF ix > Len(table) THEN v
  ELSE AliasLoop(IF InList(v, table[ix].aliases) THEN PyStr(table[ix].key) ELSE v,
                 table, ix + 1)

(* for key, aliases in _product.items():                                   *)
(*     if product.upper() in aliases: product = key                        *)
RECURSIVE ProductLoop(_, _)
ProductLoop(product, ix) ==
  IF ix > Len(_product) THEN product
  ELSE ProductLoop(IF InList(PyStr(Upper(product)), _product[ix].aliases)
                   THEN _product[ix].key ELSE product,
                   ix + 1)

MesoSectors == {s_M1, s_M2}

(* a variant of DomainOfABI: the digits of the domain are dropped *)
DomainOfABI_DropDigits(product, domain) ==
  IF InKeys(PyStr(LastChar(product)), _domain)
  THEN [product |-> product, domain |-> PyStr(LastChar(product))]
  ELSE IF IsStr(domain)
  THEN LET up == SelectSeq(Upper(domain.str), LAMBDA ch : ch \notin {"1", "2", "3"}) IN
       [product |-> product \o up, domain |-> PyStr(up)]
  ELSE [product |-> product, domain |-> domain]

(* The domain and product after the "Determine the Domain" block, for an   *)
(* ABI product.                                                            *)
DomainOfABI(product, domain) ==
  IF InKeys(PyStr(LastChar(product)), _domain)
  THEN [product |-> product, domain |-> PyStr(LastChar(product))]
  ELSE IF IsStr(domain)
  THEN LET up == Upper(domain.str) IN
       IF up \in MesoSectors
       THEN [product |-> product \o s_M, domain |-> PyStr(up)]
       ELSE LET d == AliasLoop(PyStr(up), _domain, 1) IN
            [product |-> product \o d.str, domain |-> d]
  ELSE [product |-> product, domain |-> domain]

DomainAccepted(domain) ==
  InKeys(domain, _domain) \/ (IsStr(domain) /\ domain.str \in MesoSectors)

(* "Determine the Satellite" *)
SatelliteOf(satellite) ==
  IF InKeys(satellite, _satellite) THEN satellite
  ELSE AliasLoop(PyStr(Upper(PyToStr(satellite))), _satellite, 1)

(* "Determine the Domain (only needed for ABI product)" *)
DomainOf(isABI, product, domain) ==
  IF isABI THEN DomainOfABI(product, domain)
  ELSE [product |-> product, domain |-> PyNone]

(* "Determine the Product" *)
ProductOf(product) ==
  IF InKeys(PyStr(product), _product) THEN product ELSE ProductLoop(product, 1)

(* The assertions on the resolved satellite, domain and product, and the   *)
(* returned values.                                                        *)
CheckAssertions(sat, isABI, domain, prod) ==
  IF ~InKeys(sat, _satellite) THEN [err |-> TRUE]
  ELSE IF isABI /\ ~DomainAccepted(domain) THEN [err |-> TRUE]
  ELSE IF ~InKeys(PyStr(prod), _product) THEN [err |-> TRUE]
  ELSE [err |-> FALSE, satellite |-> sat.str, product |-> prod, domain |-> domain]

CheckResolved(sat, isABI, dp) ==
  CheckAssertions(sat, isABI, dp.domain, ProductOf(dp.product))

CheckABI(isABI, satellite, domain, product) ==
  CheckResolved(SatelliteOf(satellite), isABI, DomainOf(isABI, product, domain))

(* _check_param_inputs: err is TRUE when one of its assertions fails,      *)
(* else satellite, product and domain are the returned values.             *)
_check_param_inputs(satellite, domain, product) ==
  CheckABI(StartsWith(Upper(product), s_ABI), satellite, domain, product)

----------------------------------------------------------------------------
(* The archive.  A file name                                               *)
(*   <bucket>/<product>/<Y>/<j>/<H>/OR_<product stem><scene>-M<mode>       *)
(*       [C<band>]_G<nn>_s<start>_e<end>_c<creation>.nc                    *)
(* is the record of its parts; band = 0: the name has no C<band> part;     *)
(* hour is the hourly directory the file is stored in, the hour of its     *)
(* start.  A timestamp part that is no timestamp text is a negative        *)
(* number.                                                                 *)
MaxBand == 2
Scenes == <<s_M1, s_M2>>

(* The hourly directory of a time: f"{DATE:%Y/%j/%H/}"                     *)
Hour(t) == t \div HourTicks

MesoFiles ==
  { [bucket |-> s_noaa_goes16, product |-> s_RadM, scene |-> Scenes[sc],
     mode |-> 6, band |-> b, hour |-> Hour(t),
     start |-> t, end |-> t + 1, creation |-> t + 2] :
       sc \in 1..Len(Scenes), b \in 1..MaxBand, t \in 0..MaxT }

GLMFiles ==
  { [bucket |-> s_noaa_goes16, product |-> s_LCFA, scene |-> <<>>,
     mode |-> 0, band |-> 0, hour |-> Hour(t),
     start |-> t, end |-> t + 1, creation |-> t + 2] :
       t \in 0..MaxT }

AllFiles == MesoFiles \cup GLMFiles

RECURSIVE ArchivesUpTo(_, _)
ArchivesUpTo(files, n) ==
  IF n = 0 THEN {{}}
  ELSE LET P == ArchivesUpTo(files, n - 1) IN P \cup { A \cup {f} : A \in P, f \in files }


(* The order of two names of one directory (names are listed sorted).      *)
SceneRank(sc) == IF sc = <<>> THEN 0 ELSE CHOOSE ix \in 1..Len(Scenes) : Scenes[ix] = sc
RECURSIVE KeyBefore(_, _, _)
KeyBefore(kf, kg, ix) ==
  /\ ix <= Len(kf)
  /\ \/ kf[ix] < kg[ix]
     \/ kf[ix] = kg[ix] /\ KeyBefore(kf, kg, ix + 1)
NameBefore(f, g) ==
  KeyBefore(<<SceneRank(f.scene), f.band, f.start, f.end, f.creation>>,
            <<SceneRank(g.scene), g.band, g.start, g.end, g.creation>>, 1)

RECURSIVE SortedNames(_)
SortedNames(S) ==
  IF S = {} THEN <<>>
  ELSE LET first == CHOOSE f \in S : \A g \in S \ {f} : NameBefore(f, g)
       IN  <<first>> \o SortedNames(S \ {first})

(* fs.ls(f"{satellite}/{product}/{DATE:%Y/%j/%H/}") *)
fs_ls(satellite, product, hour) ==
  SortedNames({ f \in archive : f.bucket = satellite /\ f.product = product
                                /\ f.hour = hour })

(* files = []; for DATE in DATES: files += fs.ls(...) *)
RECURSIVE ListHours(_, _, _, _)
ListHours(satellite, product, h, hlast) ==
  IF h > hlast THEN <<>>
  ELSE fs_ls(satellite, product, h) \o ListHours(satellite, product, h + 1, hlast)

(* The "band" column: the names' band numbers, or None (0) for every row   *)
(* when astype(int) fails because some name has no band.                   *)
BandColumn(files) ==
  IF \A ix \in 1..Len(files) : files[ix].band # 0
  THEN [ix \in 1..Len(files) |-> files[ix].band]
  ELSE [ix \in 1..Len(files) |-> 0]

(* if not hasattr(bands, "__len__"): bands = [bands] *)
BandsAsList(bands) == IF IsList(bands) THEN bands.list ELSE <<bands.int>>

(* a variant of BandFilter: every row is kept *)
BandFilter_KeepAll(df, bands) == df

(* df.loc[df.band.isin(bands)] *)
BandFilter(df, bands) ==
  LET lst == BandsAsList(bands) IN
  SelectSeq(df, LAMBDA row : \E ix \in 1..Len(lst) : lst[ix] = row.band)

(* a variant of TimeFilter: rows that overlap the window *)
TimeFilter_Overlap(df, start, end) ==
  SelectSeq(SelectSeq(df, LAMBDA row : row.end >= start),
            LAMBDA row : row.end <= end)

(* df.loc[df.start >= start].loc[df.end <= end] *)
TimeFilter(df, start, end) ==
  SelectSeq(SelectSeq(df, LAMBDA row : row.start >= start),
            LAMBDA row : row.end <= end)

(* _goes_file_df.  An empty listing makes the assignment of the five name  *)
(* parts to the table fail (no column to assign).                          *)
(* The table of the listed names: file, start, end and band columns.       *)
FileTable(files, bandcol) ==
  [ix \in 1..Len(files) |->
     [file |-> files[ix], start |-> files[ix].start,
      end |-> files[ix].end, band |-> bandcol[ix]]]

(* a variant of to_datetime_raises: only the start column is converted *)
to_datetime_raises_StartOnly(df) == \E ix \in 1..Len(df) : df[ix].start < 0

(* pd.to_datetime(column, format=...) raises when an element of the        *)
(* column does not match the format                                        *)
to_datetime_raises(df) ==
  \E ix \in 1..Len(df) :
    df[ix].start < 0 \/ df[ix].end < 0 \/ df[ix].file.creation < 0

(* "Convert filename datetime string to datetime object" and "Filter by    *)
(* files within the requested time range", of the rows the band filter     *)
(* has left                                                                *)
ParseAndFilter(df, filtered, start, end) ==
  IF to_datetime_raises(df)
  THEN [err |-> TRUE, df |-> <<>>,
        trace |-> <<"list">> \o (IF filtered THEN <<"band_filter">> ELSE <<>>)
                  \o <<"parse">>]
  ELSE [err |-> FALSE, df |-> TimeFilter(df, start, end),
        trace |-> <<"list">> \o (IF filtered THEN <<"band_filter">> ELSE <<>>)
                  \o <<"parse", "time_filter">>]

(* "Filter files by band number", then the timestamps                      *)
FilterTable(df, filtered, start, end, bands) ==
  ParseAndFilter(IF filtered THEN BandFilter(df, bands) ELSE df,
                 filtered, start, end)

FileDfOfListing(files, isABI, start, end, bands) ==
  IF files = <<>>
  THEN [err |-> TRUE, df |-> <<>>, trace |-> <<"list">>]
  ELSE FilterTable(FileTable(files, IF isABI THEN BandColumn(files)
                                    ELSE [ix \in 1..Len(files) |-> 0]),
                   isABI /\ ~IsNone(bands), start, end, bands)

_goes_file_df(satellite, product, start, end, bands) ==
  FileDfOfListing(ListHours(satellite, product, Hour(start), Hour(end)),
                  StartsWith(product, s_ABI), start, end, bands)

----------------------------------------------------------------------------
(* The hourly directories by the calendar: _goes_file_df, data.py.  A time *)
(* is a number of ticks since 2020-01-01 00:00, HourTicks to the hour.     *)
IsLeap(y) == (y % 4 = 0 /\ y % 100 # 0) \/ y % 400 = 0
DaysInYear(y) == IF IsLeap(y) THEN 366 ELSE 365
DaysInMonth(y, m) ==
  IF m = 2 THEN (IF IsLeap(y) THEN 29 ELSE 28)
  ELSE IF m \in {4, 6, 9, 11} THEN 30 ELSE 31

(* the year and the day of the year (%Y, %j) of the d-th day since the     *)
(* first of January of year y                                              *)
RECURSIVE YearDay(_, _)
YearDay(y, d) ==
  IF d < DaysInYear(y) THEN [year |-> y, yday |-> d + 1]
  ELSE YearDay(y + 1, d - DaysInYear(y))

(* the month and the day of the month (%m, %d) of the d-th day since the   *)
(* first of month m of year y                                              *)
RECURSIVE MonthDay(_, _, _)
MonthDay(y, m, d) ==
  IF d < DaysInMonth(y, m) THEN [month |-> m, day |-> d + 1]
  ELSE MonthDay(y, m + 1, d - DaysInMonth(y, m))

RECURSIVE DaysBeforeMonth(_, _)
DaysBeforeMonth(y, m) ==
  IF m = 1 THEN 0 ELSE DaysBeforeMonth(y, m - 1) + DaysInMonth(y, m - 1)

RECURSIVE DaysBeforeYear(_)
DaysBeforeYear(y) ==
  IF y = 2020 THEN 0 ELSE DaysBeforeYear(y - 1) + DaysInYear(y - 1)

(* f"{start:%Y-%m-%d %H:00}": the minutes and seconds are left out *)
strftime_Ymd_H(t) ==
  LET yd == YearDay(2020, (t \div HourTicks) \div 24)
      md == MonthDay(yd.year, 1, yd.yday - 1)
  IN  [year |-> yd.year, month |-> md.month, day |-> md.day,
       hour |-> (t \div HourTicks) % 24]

(* the time that the text "%Y-%m-%d %H:00" names *)
Timestamp(text) ==
  ((DaysBeforeYear(text.year) + DaysBeforeMonth(text.year, text.month)
      + text.day - 1) * 24 + text.hour) * HourTicks

(* a variant of date_range: the last hour is left out *)
RECURSIVE date_range_Open(_, _)
date_range_Open(first, last) ==
  IF first >= last THEN <<>>
  ELSE <<first>> \o date_range_Open(first + HourTicks, last)

(* pd.date_range(first, last, freq="1H"): both ends belong to it *)
RECURSIVE date_range(_, _)
date_range(first, last) ==
  IF first > last THEN <<>>
  ELSE <<first>> \o date_range(first + HourTicks, last)

(* DATES = pd.date_range(f"{start:%Y-%m-%d %H:00}", f"{end:%Y-%m-%d %H:00}", freq="1H") *)
DATES(start, end) ==
  date_range(Timestamp(strftime_Ymd_H(start)), Timestamp(strftime_Ymd_H(end)))

(* f"{DATE:%Y/%j/%H/}" *)
strftime_YjH(t) ==
  LET yd == YearDay(2020, (t \div HourTicks) \div 24)
  IN  <<yd.year, yd.yday, (t \div HourTicks) % 24>>

(* files = []; for DATE in DATES: files += fs.ls(f"{satellite}/{product}/{DATE:%Y/%j/%H/}") *)
RECURSIVE ListDates(_, _, _)
ListDates(satellite, product, dates) ==
  IF dates = <<>> THEN <<>>
  ELSE fs_ls(satellite, product, strftime_YjH(Head(dates)))
         \o ListDates(satellite, product, Tail(dates))

(* the directories that are listed, in the order of the listing *)
ListedDirectories(dates) == [ix \in 1..Len(dates) |-> strftime_YjH(dates[ix])]

_goes_file_df_dates(satellite, product, start, end, bands) ==
  FileDfOfListing(ListDates(satellite, product, DATES(start, end)),
                  StartsWith(product, s_ABI), start, end, bands)

----------------------------------------------------------------------------
(* goes_nearesttime *)

(* a variant of MesoFilter: every mesoscale row is kept *)
MesoFilter_AnySector(df, sector) ==
  SelectSeq(df, LAMBDA row : row.file.mode # 0)

(* df[df["file"].str.contains(f"{domain.upper()}-M")]: the scene of a name *)
(* is followed by "-M<mode>", so the name contains "M1-M" exactly when its *)
(* scene is M1.                                                            *)
MesoFilter(df, sector) ==
  SelectSeq(df, LAMBDA row : row.file.scene = sector /\ row.file.mode # 0)

(* df.sort_values("start") *)
RECURSIVE InsertByStart(_, _)
InsertByStart(row, sorted) ==
  IF sorted = <<>> THEN <<row>>
  ELSE IF row.start < Head(sorted).start THEN <<row>> \o sorted
  ELSE <<Head(sorted)>> \o InsertByStart(row, Tail(sorted))

RECURSIVE SortByStart(_)
SortByStart(df) ==
  IF df = <<>> THEN <<>>
  ELSE InsertByStart(df[Len(df)], SortByStart(SubSeq(df, 1, Len(df) - 1)))

(* df.index.unique(): the distinct start times in order of appearance *)
RECURSIVE UniqueStarts(_)
UniqueStarts(df) ==
  IF df = <<>> THEN <<>>
  ELSE LET init == UniqueStarts(SubSeq(df, 1, Len(df) - 1))
           t == df[Len(df)].start
       IN  IF \E ix \in 1..Len(init) : init[ix] = t THEN init ELSE Append(init, t)

Abs(n) == IF n < 0 THEN -n ELSE n

(* index[i] for a 0-based Python index i >= -1 of a non-empty index        *)
PyItem(index, i) == IF i = -1 THEN index[Len(index)] ELSE index[i + 1]

(* get_indexer([target], method="pad" / "backfill"): 0-based, -1 = none    *)
PadIndexer(index, target) ==
  LET S == { ix \in 1..Len(index) : index[ix] <= target } IN
  IF S = {} THEN -1 ELSE (CHOOSE ix \in S : \A jx \in S : jx <= ix) - 1
BackfillIndexer(index, target) ==
  LET S == { ix \in 1..Len(index) : index[ix] >= target } IN
  IF S = {} THEN -1 ELSE (CHOOSE ix \in S : \A jx \in S : jx >= ix) - 1

(* a variant of PreferLeft: the left neighbour also on a tie *)
PreferLeft_OnTie(left_distance, right_distance) == left_distance <= right_distance

(* The choice between the two neighbours of the target, for a monotonic    *)
(* increasing index: the left one only when it is strictly nearer.         *)
PreferLeft(left_distance, right_distance) == left_distance < right_distance

(* a variant of GetIndexerNearest: the neighbour at or before the target   *)
GetIndexerNearest_Pad(index, target) ==
  IF index = <<>> THEN -1
  ELSE IF PadIndexer(index, target) = -1 THEN BackfillIndexer(index, target)
  ELSE PadIndexer(index, target)

(* Index.get_indexer([target], method="nearest") of a sorted, unique index *)
GetIndexerNearest(index, target) ==
  IF index = <<>> THEN -1
  ELSE LET left_indexer == PadIndexer(index, target)
           right_indexer == BackfillIndexer(index, target)
           left_distances == Abs(PyItem(index, left_indexer) - target)
           right_distances == Abs(PyItem(index, right_indexer) - target)
       IN  IF PreferLeft(left_distances, right_distances) \/ right_indexer = -1
           THEN left_indexer ELSE right_indexer

(* a variant of RowsAt: the first matching row only *)
RowsAt_FirstOnly(df, nearest_time) ==
  LET rows == SelectSeq(df, LAMBDA row : row.start = nearest_time) IN
  IF rows = <<>> THEN <<>> ELSE <<Head(rows)>>

(* df.loc[nearest_time] *)
RowsAt(df, nearest_time) == SelectSeq(df, LAMBDA row : row.start = nearest_time)

(* a variant of WindowEnd: one tick too late *)
WindowEnd_Late(attime, within) == attime + within + 1

(* start = attime - within; end = attime + within *)
WindowStart(attime, within) == attime - within
WindowEnd(attime, within) == attime + within

Returned(outc, at, rows, tr) ==
  [outcome |-> outc, errat |-> at, result |-> rows, trace |-> tr]

(* n = len(df.file); if n == 0: print("No data"); return None *)
NearestRows(df, tr) ==
  IF Len(df) = 0 THEN Returned("nodata", "", <<>>, tr) ELSE Returned("ok", "", df, tr)

(* nearest_time = unique_times_index[nearest_time_index]: indexing the     *)
(* empty index with [-1] is out of bounds.                                 *)
NearestOfIndex(df, unique_times_index, attime, tr) ==
  IF unique_times_index = <<>> THEN Returned("error", "nearest", <<>>, tr)
  ELSE NearestRows(RowsAt(df, PyItem(unique_times_index,
                                     GetIndexerNearest(unique_times_index, attime))),
                   tr)

(* "Get row that matches the nearest time", of the table sorted by start   *)
NearestOfSorted(df, attime, tr) == NearestOfIndex(df, UniqueStarts(df), attime, tr)

(* "Filter for specific mesoscale domain", with sector = domain.upper()    *)
NearestOfDomain(df, sector, attime, tr) ==
  NearestOfSorted(
    SortByStart(IF sector \in MesoSectors THEN MesoFilter(df, sector) ELSE df),
    attime,
    tr \o (IF sector \in MesoSectors THEN <<"meso_filter">> ELSE <<>>)
       \o <<"nearest">>)

NearestOfListing(fd, domain, attime) ==
  IF fd.err THEN Returned("error", "file_df", <<>>, <<"check">> \o fd.trace)
  ELSE IF ~IsStr(domain)
  THEN Returned("error", "domain_upper", <<>>, <<"check">> \o fd.trace)
  ELSE NearestOfDomain(fd.df, Upper(domain.str), attime, <<"check">> \o fd.trace)

NearestOfChecked(chk, start, end, attime, domain, bands) ==
  IF chk.err THEN Returned("error", "check_param", <<>>, <<"check">>)
  ELSE NearestOfListing(_goes_file_df(chk.satellite, chk.product, start, end, bands),
                        domain, attime)

goes_nearesttime(attime, within, satellite, product, domain, bands) ==
  NearestOfChecked(_check_param_inputs(satellite, domain, product),
                   WindowStart(attime, within), WindowEnd(attime, within),
                   attime, domain, bands)

----------------------------------------------------------------------------
(* goes_timerange, called with start and end, download=False and           *)
(* return_as="filelist"                                                    *)
RangeOfListing(fd) ==
  IF fd.err THEN Returned("error", "file_df", <<>>, <<"check">> \o fd.trace)
  ELSE Returned("ok", "", fd.df, <<"check">> \o fd.trace)

RangeOfChecked(chk, start, end, bands) ==
  IF chk.err THEN Returned("error", "check_param", <<>>, <<"check">>)
  ELSE RangeOfListing(_goes_file_df(chk.satellite, chk.product, start, end, bands))

goes_timerange(start, end, satellite, product, domain, bands) ==
  RangeOfChecked(_check_param_inputs(satellite, domain, product), start, end, bands)

----------------------------------------------------------------------------
(* _download, _as_xarray and goes_timerange with its download, overwrite   *)
(* and return_as arguments                                                 *)

(* dst.is_file() *)
is_file(copies, src) == \E c \in copies : c.file = src

(* a variant of Fetches: every file is fetched *)
Fetches_Always(copies, src, overwrite) == TRUE

(* do_download: fs.get(src, str(dst)) unless the file is there and is not  *)
(* to be overwritten                                                       *)
Fetches(copies, src, overwrite) == ~(is_file(copies, src) /\ ~overwrite)

(* The local copies after the files of got have been written *)
Written(copies, got) ==
  { c \in copies : c.file \notin got } \cup { [file |-> f, copy |-> "new"] : f \in got }

Downloaded(copies, got) == [err |-> FALSE, disk |-> Written(copies, got), fetched |-> got]

(* _download: ThreadPoolExecutor(threads) raises for threads = 0 *)
_download(df, overwrite, copies) ==
  IF Len(df) = 0 THEN [err |-> TRUE, disk |-> copies, fetched |-> {}]
  ELSE Downloaded(copies, { df[ix].file : ix \in { jx \in 1..Len(df) :
                                          Fetches(copies, df[jx].file, overwrite) } })

(* if download is false nothing is fetched *)
NotDownloaded(copies) == [err |-> FALSE, disk |-> copies, fetched |-> {}]

Done(outc, at, rows, tr, dl) ==
  [outcome |-> outc, errat |-> at, result |-> rows, trace |-> tr,
   disk |-> dl.disk, fetched |-> dl.fetched]

(* return_as "filelist": the table; "xarray": _as_xarray, which for an     *)
(* empty table prints "No data" and then uses the dataset it has not       *)
(* opened                                                                  *)
Delivered(df, return_as, tr, dl) ==
  IF return_as = "filelist" THEN Done("ok", "", df, tr \o <<"filelist">>, dl)
  ELSE IF Len(df) = 0 THEN Done("error", "as_xarray", <<>>, tr \o <<"no_data">>, dl)
  ELSE Done("ok", "", df, tr \o <<"xarray">>, dl)

AfterDownload(df, return_as, tr, dl) ==
  IF dl.err THEN Done("error", "download", <<>>, tr \o <<"download">>, dl)
  ELSE Delivered(df, return_as, tr \o <<"download">>, dl)

RetrieveListing(fd, download, overwrite, return_as, copies) ==
  IF fd.err
  THEN Done("error", "file_df", <<>>, <<"check">> \o fd.trace, NotDownloaded(copies))
  ELSE IF download
  THEN AfterDownload(fd.df, return_as, <<"check">> \o fd.trace,
                     _download(fd.df, overwrite, copies))
  ELSE Delivered(fd.df, return_as, <<"check">> \o fd.trace, NotDownloaded(copies))

RetrieveChecked(chk, start, end, bands, download, overwrite, return_as, copies) ==
  IF chk.err
  THEN Done("error", "check_param", <<>>, <<"check">>, NotDownloaded(copies))
  ELSE RetrieveListing(_goes_file_df(chk.satellite, chk.product, start, end, bands),
                       download, overwrite, return_as, copies)

goes_timerange_retrieve(start, end, satellite, product, domain, bands, download, overwrite, return_as, copies) ==
  RetrieveChecked(_check_param_inputs(satellite, domain, product),
                  start, end, bands, download, overwrite, return_as, copies)

----------------------------------------------------------------------------
(* goes_single_point_timerange with return_as="xarray": data.py.  A local  *)
(* path is a directory and the name of a file below it.                    *)

(* config["timerange"]["save_dir"], "~/data" unless configured otherwise *)
config_save_dir == <<"~", "/", "d", "a", "t", "a">>

(* do_download: dst = Path(save_dir) / src *)
dst(save_dir, src) == [dir |-> save_dir, file |-> src]

(* str(config['timerange']['save_dir']) + "/" + f *)
OpenedPath(f) == [dir |-> config_save_dir, file |-> f]

(* dst.is_file() *)
is_file_at(copies, path) ==
  \E c \in copies : c.dir = path.dir /\ c.file = path.file

(* do_download for every row of df: fs.get(src, str(dst)) unless the file  *)
(* is there and is not to be overwritten                                   *)
FetchedTo(df, save_dir, overwrite, copies) ==
  { df[ix].file : ix \in { jx \in 1..Len(df) :
      ~(is_file_at(copies, dst(save_dir, df[jx].file)) /\ ~overwrite) } }
WrittenTo(copies, save_dir, got) ==
  { c \in copies : ~(c.dir = save_dir /\ c.file \in got) }
    \cup { [dir |-> save_dir, file |-> f, copy |-> "new"] : f \in got }

(* _download(df, save_dir=save_dir, overwrite=overwrite) *)
_download_to(df, save_dir, overwrite, copies) ==
  IF Len(df) = 0 THEN [err |-> TRUE, disk |-> copies, fetched |-> {}]
  ELSE [err |-> FALSE,
        disk |-> WrittenTo(copies, save_dir, FetchedTo(df, save_dir, overwrite, copies)),
        fetched |-> FetchedTo(df, save_dir, overwrite, copies)]

(* xr.open_mfdataset([...]): raises when there is no path or a path is no  *)
(* file; else every row with the path and the copy that was opened         *)
open_mfdataset(df, copies) ==
  IF Len(df) = 0 \/ \E ix \in 1..Len(df) : ~is_file_at(copies, OpenedPath(df[ix].file))
  THEN [err |-> TRUE, rows |-> <<>>]
  ELSE [err |-> FALSE,
        rows |-> [ix \in 1..Len(df) |->
                    [file |-> df[ix].file, path |-> OpenedPath(df[ix].file),
                     copy |-> (CHOOSE c \in copies :
                                 c.dir = config_save_dir /\ c.file = df[ix].file).copy]]]

SinglePointOpened(ds, tr, dl) ==
  IF ds.err THEN Done("error", "open_mfdataset", <<>>, tr \o <<"open_mfdataset">>, dl)
  ELSE Done("ok", "", ds.rows, tr \o <<"open_mfdataset">>, dl)

SinglePointDownloaded(df, tr, dl) ==
  IF dl.err THEN Done("error", "download", <<>>, tr \o <<"download">>, dl)
  ELSE SinglePointOpened(open_mfdataset(df, dl.disk), tr \o <<"download">>, dl)

SinglePointListing(fd, save_dir, download, overwrite, copies) ==
  IF fd.err
  THEN Done("error", "file_df", <<>>, <<"check">> \o fd.trace, NotDownloaded(copies))
  ELSE IF download
  THEN SinglePointDownloaded(fd.df, <<"check">> \o fd.trace,
                             _download_to(fd.df, save_dir, overwrite, copies))
  ELSE SinglePointOpened(open_mfdataset(fd.df, copies), <<"check">> \o fd.trace,
                         NotDownloaded(copies))

SinglePointChecked(chk, start, end, bands, save_dir, download, overwrite, copies) ==
  IF chk.err
  THEN Done("error", "check_param", <<>>, <<"check">>, NotDownloaded(copies))
  ELSE SinglePointListing(_goes_file_df(chk.satellite, chk.product, start, end, bands),
                          save_dir, download, overwrite, copies)

goes_single_point_timerange_xarray(start, end, satellite, product, domain, bands, save_dir, download, overwrite, copies) ==
  SinglePointChecked(_check_param_inputs(satellite, domain, product),
                     start, end, bands, save_dir, download, overwrite, copies)

----------------------------------------------------------------------------
(* goes_latest, called at time now with download=False and                 *)
(* return_as="filelist"                                                    *)

(* a variant of MaxStart: the earliest start *)
MaxStart_Earliest(df) ==
  IF df = <<>> THEN -1
  ELSE CHOOSE t \in { df[ix].start : ix \in 1..Len(df) } :
         \A ix \in 1..Len(df) : t <= df[ix].start

(* df.start.max(); -1 stands for NaT, which no start equals *)
MaxStart(df) ==
  IF df = <<>> THEN -1
  ELSE CHOOSE t \in { df[ix].start : ix \in 1..Len(df) } :
         \A ix \in 1..Len(df) : df[ix].start <= t

(* "Get the most recent file (latest start date)" *)
LatestRows(df, tr) == Returned("ok", "", RowsAt(df, MaxStart(df)), tr)

(* "Filter for specific mesoscale domain", with the domain returned by     *)
(* _check_param_inputs                                                     *)
LatestOfDomain(df, meso, domain, tr) ==
  LatestRows(IF meso THEN MesoFilter(df, Upper(domain.str)) ELSE df,
             tr \o (IF meso THEN <<"meso_filter">> ELSE <<>>) \o <<"latest">>)

LatestOfListing(fd, domain) ==
  IF fd.err THEN Returned("error", "file_df", <<>>, <<"check">> \o fd.trace)
  ELSE LatestOfDomain(fd.df,
                      ~IsNone(domain) /\ Upper(domain.str) \in MesoSectors,
                      domain, <<"check">> \o fd.trace)

LatestOfChecked(chk, start, end, bands) ==
  IF chk.err THEN Returned("error", "check_param", <<>>, <<"check">>)
  ELSE LatestOfListing(_goes_file_df(chk.satellite, chk.product, start, end, bands),
                       chk.domain)

goes_latest(now, satellite, product, domain, bands) ==
  LatestOfChecked(_check_param_inputs(satellite, domain, product),
                  now - HourTicks, now, bands)

----------------------------------------------------------------------------
(* The GOES class: NEW.py                                                  *)

s_noaa_goes == <<"n", "o", "a", "a", "-", "g", "o", "e", "s">>
s_noaa_goes19 == s_noaa_goes \o <<"1", "9">>
s_EAST == <<"E", "A", "S", "T">>
s_WEST == <<"W", "E", "S", "T">>

(* re.sub("[^0-9]", "", s) and re.sub("[0-9]", "", s) *)
IsDigit(ch) == \E ix \in 1..Len(DigitChar) : DigitChar[ix] = ch
OnlyDigits(s) == SelectSeq(s, IsDigit)
NoDigits(s) == SelectSeq(s, LAMBDA ch : ~IsDigit(ch))

(* the domains of the class *)
_domains == {s_F, s_C, s_M, s_M1, s_M2}

(* a variant of _check_satellite: 'WEST' is the newer western satellite *)
_check_satellite_West18(satellite) ==
  IF IsInt(satellite)
  THEN [err |-> FALSE, satellite |-> s_noaa_goes \o StrOfInt(satellite.int)]
  ELSE IF IsStr(satellite)
  THEN [err |-> FALSE,
        satellite |-> IF Upper(satellite.str) = s_EAST THEN s_noaa_goes16
                      ELSE IF Upper(satellite.str) = s_WEST THEN s_noaa_goes18
                      ELSE s_noaa_goes \o OnlyDigits(satellite.str)]
  ELSE [err |-> TRUE]

(* GOES._check_satellite: the bucket name of self.satellite *)
_check_satellite(satellite) ==
  IF IsInt(satellite)
  THEN [err |-> FALSE, satellite |-> s_noaa_goes \o StrOfInt(satellite.int)]
  ELSE IF IsStr(satellite)
  THEN [err |-> FALSE,
        satellite |-> IF Upper(satellite.str) = s_EAST THEN s_noaa_goes16
                      ELSE IF Upper(satellite.str) = s_WEST THEN s_noaa_goes17
                      ELSE s_noaa_goes \o OnlyDigits(satellite.str)]
  ELSE [err |-> TRUE]

(* GOES._check_product, the ABI branch with a domain *)
ProductWithDomain(product, domain) ==
  IF domain.str \notin _domains THEN [err |-> TRUE]
  ELSE [err |-> ~InKeys(PyStr(product \o NoDigits(domain.str)), _product),
        product |-> product \o NoDigits(domain.str), domain |-> domain]

(* GOES._check_product: self.product and self.domain after it, before the  *)
(* last test                                                               *)
ProductNamed(product, domain) ==
  IF product = s_GLM THEN [err |-> FALSE, product |-> s_LCFA, domain |-> domain]
  ELSE IF product = s_ABI
  THEN [err |-> FALSE,
        product |-> s_MCMIP \o (IF IsNone(domain) THEN s_C ELSE NoDigits(domain.str)),
        domain |-> domain]
  ELSE IF StartsWith(product, s_ABI)
  THEN IF IsNone(domain)
       THEN [err |-> FALSE, product |-> product,
             domain |-> IF LastChar(product) \in _domains
                        THEN PyStr(LastChar(product)) ELSE domain]
       ELSE ProductWithDomain(product, domain)
  ELSE [err |-> FALSE, product |-> product, domain |-> domain]

_check_product(named) ==
  IF named.err THEN named
  ELSE [named EXCEPT !.err = ~InKeys(PyStr(named.product), _product)]

(* GOES.__init__ after "if self.product.startswith("ABI") and              *)
(* self.product in _product"                                               *)
Constructed(sat, prod, bands) ==
  IF sat.err \/ prod.err THEN [err |-> TRUE]
  ELSE [err |-> FALSE, satellite |-> sat.satellite, product |-> prod.product,
        domain |-> prod.domain, bands |-> bands]

(* GOES(satellite, product, domain, bands): the attributes of the object,  *)
(* or err when the constructor raises                                      *)
GOES(satellite, product, domain, bands) ==
  Constructed(_check_satellite(satellite),
              IF StartsWith(product, s_ABI) /\ InKeys(PyStr(product), _product)
              THEN _check_product(ProductNamed(SubSeq(product, 1, Len(product) - 1),
                                               PyStr(LastChar(product))))
              ELSE _check_product(ProductNamed(product, domain)),
              bands)

(* goes_single_point_timerange with return_as="filelist": the steps of     *)
(* goes_timerange                                                          *)
goes_single_point_timerange(start, end, satellite, product, domain, bands, download, overwrite, copies) ==
  RetrieveChecked(_check_param_inputs(satellite, domain, product),
                  start, end, bands, download, overwrite, "filelist", copies)

----------------------------------------------------------------------------
(* lat_lon_to_scan_angles: tools.py.                                       *)
(*                                                                         *)
(* Fixed point: angles are whole degrees on a grid of ten degrees,         *)
(* cosines and sines are tenths, the axes and the height of a projection   *)
(* are whole length units, and H and the components s_x, s_y, s_z are      *)
(* hundredths of a unit (a length times two tenths).  Quotients and roots   *)
(* are rounded to the nearest value.                                       *)
(* 10*cos of 0, 10, ..., 90 degrees *)
CosTable == <<10, 10, 9, 9, 8, 6, 5, 3, 2, 0>>

(* np.cos and np.sin of np.radians(degrees) *)
np_cos(degrees) ==
  LET a == Abs(((degrees + 180) % 360) - 180) IN
  IF a <= 90 THEN CosTable[(a \div 10) + 1]
  ELSE -CosTable[((180 - a) \div 10) + 1]
np_sin(degrees) == np_cos(degrees - 90)

(* a / b to the nearest integer, b > 0 *)
RoundDiv(a, b) ==
  IF a >= 0 THEN (2 * a + b) \div (2 * b) ELSE -((2 * (-a) + b) \div (2 * b))

(* np.sqrt to the nearest integer: the root lies in lo..hi *)
RECURSIVE SqrtSearch(_, _, _)
SqrtSearch(n, lo, hi) ==
  IF lo = hi THEN lo
  ELSE LET mid == (lo + hi + 1) \div 2 IN
       IF mid * mid <= n THEN SqrtSearch(n, mid, hi) ELSE SqrtSearch(n, lo, mid - 1)
NearestRoot(n, r) == IF n - r * r > (r + 1) * (r + 1) - n THEN r + 1 ELSE r
np_sqrt(n) == NearestRoot(n, SqrtSearch(n, 0, 8192))

(* e**2 in 1/10000, of e = 0.0818191910435 *)
e_squared == 67

(* The direction of slope numerator/denominator, as its cosine and sine    *)
UnitDirection(denominator, numerator, hypotenuse) ==
  [cos |-> RoundDiv(10 * denominator, hypotenuse),
   sin |-> RoundDiv(10 * numerator, hypotenuse)]

(* phi_c = np.arctan((r_pol**2/r_eq**2)*np.tan(latitude)), as the cosine   *)
(* and sine of phi_c; np.tan of a right angle is a huge number, of which   *)
(* the arctan is the right angle again.                                    *)
GeocentricDirection(denominator, numerator) ==
  UnitDirection(denominator, numerator,
                np_sqrt(denominator * denominator + numerator * numerator))
phi_c(latitude, r_eq, r_pol) ==
  IF np_cos(latitude) = 0
  THEN [cos |-> 0, sin |-> np_sin(latitude)]
  ELSE GeocentricDirection(r_eq * r_eq * np_cos(latitude),
                           r_pol * r_pol * np_sin(latitude))

(* r_c = r_pol/(np.sqrt(1-(e**2*np.cos(phi_c)**2))) *)
r_c(r_pol, cos_phi_c) ==
  np_sqrt(RoundDiv(r_pol * r_pol * 1000000,
                   1000000 - e_squared * cos_phi_c * cos_phi_c))

(* s_x, s_y, s_z of a point at geocentric distance rc and direction phi,   *)
(* with dlon = longitude - lambda_0                                        *)
SatelliteVector(H, rc, phi, dlon) ==
  [s_x |-> H - rc * phi.cos * np_cos(dlon),
   s_y |-> -(rc * phi.cos * np_sin(dlon)),
   s_z |-> rc * phi.sin * 10]

PointAt(H, r_pol, phi, dlon) == SatelliteVector(H, r_c(r_pol, phi.cos), phi, dlon)

(* H = perspective_point_height + r_eq, in hundredths *)
HeightOf(proj) == 100 * (proj.perspective_point_height + proj.semi_major_axis)

s_of(latitude, longitude, proj) ==
  PointAt(HeightOf(proj), proj.semi_minor_axis,
          phi_c(latitude, proj.semi_major_axis, proj.semi_minor_axis),
          longitude - proj.longitude_of_projection_origin)

(* a variant of NotVisible: the comparison is turned round *)
NotVisible_Flipped(s, H, r_eq, r_pol) ==
  H * (H - s.s_x) * r_pol * r_pol
    > r_pol * r_pol * s.s_y * s.s_y + r_eq * r_eq * s.s_z * s.s_z

(* H*(H-s_x) < (s_y**2 + (r_eq**2/r_pol**2)*s_z**2), both sides times      *)
(* r_pol**2                                                                *)
NotVisible(s, H, r_eq, r_pol) ==
  H * (H - s.s_x) * r_pol * r_pol
    < r_pol * r_pol * s.s_y * s.s_y + r_eq * r_eq * s.s_z * s.s_z

(* a variant of np_any: every element is true *)
np_any_Every(flags) == \A ix \in 1..Len(flags) : flags[ix]

(* (...).any() *)
np_any(flags) == \E ix \in 1..Len(flags) : flags[ix]

(* y = np.arctan(s_z/s_x); x = np.arcsin(-s_y/np.sqrt(s_x**2+s_y**2+s_z**2)) *)
(* as the numerator and denominator of the argument                        *)
ScanAngles(s) ==
  [x |-> <<-s.s_y, np_sqrt(s.s_x * s.s_x + s.s_y * s.s_y + s.s_z * s.s_z)>>,
   y |-> <<s.s_z, s.s_x>>]

VisibleOrRaise(s, H, r_eq, r_pol) ==
  IF np_any([ix \in 1..Len(s) |-> NotVisible(s[ix], H, r_eq, r_pol)])
  THEN Returned("error", "not_visible", <<>>, <<"visibility">>)
  ELSE Returned("ok", "", [ix \in 1..Len(s) |-> ScanAngles(s[ix])],
                <<"visibility", "angles">>)

(* latitude and longitude are arrays of one length (or two numbers)        *)
lat_lon_to_scan_angles(latitude, longitude, goes_imager_projection) ==
  VisibleOrRaise([ix \in 1..Len(latitude) |->
                    s_of(latitude[ix], longitude[ix], goes_imager_projection)],
                 HeightOf(goes_imager_projection),
                 goes_imager_projection.semi_major_axis,
                 goes_imager_projection.semi_minor_axis)

----------------------------------------------------------------------------
(* scan_angles_to_lat_lon: tools.py.  The scan angles, the latitude and    *)
(* the longitude are whole degrees on the grid of ten degrees; an inverse  *)
(* trigonometric function gives the angle of the grid nearest to its       *)
(* value.  Lengths are hundredths of a unit.                               *)
GridAngles == { 10 * n : n \in -9..9 }

(* the angle of the grid with the least error, the one nearer to zero of   *)
(* two with the same error                                                 *)
NearestAngle(Err) ==
  CHOOSE a \in GridAngles :
    \A b \in GridAngles \ {a} :
      \/ Err[a] < Err[b]
      \/ Err[a] = Err[b] /\ (Abs(a) < Abs(b) \/ (Abs(a) = Abs(b) /\ a < b))

(* np.arctan(numerator / denominator), denominator >= 0 *)
np_arctan(numerator, denominator) ==
  IF denominator = 0 THEN (IF numerator < 0 THEN -90 ELSE 90)
  ELSE NearestAngle([a \in GridAngles |->
                       Abs(numerator * np_cos(a) - denominator * np_sin(a))])

(* np.arcsin(numerator / denominator), denominator > 0 *)
np_arcsin(numerator, denominator) ==
  NearestAngle([a \in GridAngles |->
                  IF Abs(a) > 90 THEN denominator * 20
                  ELSE Abs(10 * numerator - denominator * np_sin(a))])

(* r_eq**2 / r_pol**2 in hundredths *)
AxisRatio(r_eq, r_pol) == RoundDiv(100 * r_eq * r_eq, r_pol * r_pol)

(* a, in 1/10000 *)
a_of(x, y, ratio) ==
  np_sin(x) * np_sin(x) * 100
    + RoundDiv(np_cos(x) * np_cos(x)
                 * (np_cos(y) * np_cos(y) * 100 + ratio * np_sin(y) * np_sin(y)), 100)

(* r_s = (-b - np.sqrt(b**2 - 4*a*c)) / (2*a), with half_b = -b/2 in       *)
(* hundredths and c in whole units; the root of a negative number is nan   *)
r_s_of(half_b, a, c) ==
  IF half_b * half_b < a * c THEN [nan |-> TRUE]
  ELSE [nan |-> FALSE,
        r_s |-> RoundDiv((half_b - np_sqrt(half_b * half_b - a * c)) * 10000, a)]

(* s_x, s_y, s_z of the point at distance r_s in the direction x, y *)
PointSeen(r_s, x, y) ==
  [s_x |-> RoundDiv(r_s * np_cos(x) * np_cos(y), 100),
   s_y |-> -RoundDiv(r_s * np_sin(x), 10),
   s_z |-> RoundDiv(r_s * np_cos(x) * np_sin(y), 100)]

(* a variant of LongitudeOf: the projection origin is not added *)
LongitudeOf_NoOrigin(lambda_0, s, H) == -np_arctan(s.s_y, H - s.s_x)

(* longitude = lambda_0 - np.arctan(s_y / (H - s_x)) *)
LongitudeOf(lambda_0, s, H) == lambda_0 - np_arctan(s.s_y, H - s.s_x)

(* latitude = np.arctan((r_eq**2/r_pol**2) * (s_z / np.sqrt((H-s_x)**2 + s_y**2))) *)
LatitudeOf(ratio, s, H) ==
  np_arctan(ratio * s.s_z, 100 * np_sqrt((H - s.s_x) * (H - s.s_x) + s.s_y * s.s_y))

Geodetic(rs, x, y, ratio, lambda_0, H) ==
  IF rs.nan THEN [nan |-> TRUE]
  ELSE [nan |-> FALSE,
        latitude |-> LatitudeOf(ratio, PointSeen(rs.r_s, x, y), H),
        longitude |-> LongitudeOf(lambda_0, PointSeen(rs.r_s, x, y), H)]

(* scan_angles_to_lat_lon(x, y, goes_imager_projection): the latitude and  *)
(* longitude, or nan for both                                              *)
scan_angles_to_lat_lon(x, y, proj) ==
  Geodetic(r_s_of((HeightOf(proj) \div 100) * np_cos(x) * np_cos(y),
                  a_of(x, y, AxisRatio(proj.semi_major_axis, proj.semi_minor_axis)),
                  (HeightOf(proj) \div 100) * (HeightOf(proj) \div 100)
                    - proj.semi_major_axis * proj.semi_major_axis),
           x, y, AxisRatio(proj.semi_major_axis, proj.semi_minor_axis),
           proj.longitude_of_projection_origin, HeightOf(proj))

----------------------------------------------------------------------------
(* The field of view: tools.field_of_view and the FOV accessor's           *)
(* full_disk.                                                              *)
(*                                                                         *)
(* Lengths of the projection plane are in units of one metre times the     *)
(* radians of one degree, angles in hundredths of a degree.  A polygon is  *)
(* the set of the points it covers of a grid over the plane; the grid has  *)
(* a point every half degree of scan angle, as the polygons of the code    *)
(* have a number of vertices that does not depend on the height.           *)
GridHalf == 18
PlanePoints(sat_height) ==
  { <<i * (sat_height \div 2), j * (sat_height \div 2)>> :
      i \in -GridHalf..GridHalf, j \in -GridHalf..GridHalf }

(* np.radians(FOV_degrees / 2) * sat_height *)
FOV_radius(FOV_degrees, sat_height) == (FOV_degrees * sat_height) \div 200

(* Point(0, 0).buffer(radius) *)
buffer(radius, points) ==
  { p \in points : Abs(p[2]) <= radius
                   /\ p[1] * p[1] <= radius * radius - p[2] * p[2] }

(* a variant of cutout: the square is as wide as twice the 15 degrees *)
cutout_Wide(sat_height, points) ==
  { p \in points : Abs(p[1]) <= FOV_radius(3000, sat_height)
                   /\ Abs(p[2]) <= FOV_radius(3000, sat_height) }

(* Polygon(cutout_points): the square of half-width                        *)
(* np.radians(15 / 2) * sat_height                                         *)
cutout(sat_height, points) ==
  { p \in points : Abs(p[1]) <= FOV_radius(1500, sat_height)
                   /\ Abs(p[2]) <= FOV_radius(1500, sat_height) }

(* Polygon(dom_border * sat_height) *)
dom_border(G, sat_height, points) ==
  { p \in points : /\ G.x[1] * sat_height <= p[1] /\ p[1] <= G.x[2] * sat_height
                   /\ G.y[2] * sat_height <= p[2] /\ p[2] <= G.y[1] * sat_height }

(* the satellite height of a dataset in metres *)
sat_height_of(G) ==
  IF G.title = "ABI" THEN G.perspective_point_height
  ELSE G.nominal_satellite_height * 1000

(* the instrument polygon: the disk of 17.4 degrees less reduce_abi_fov    *)
(* for ABI, the disk of 8 * 2 + 0.15 degrees cut by the square for GLM     *)
pFOV_inst(G, sat_height, reduce_abi_fov) ==
  IF G.title = "ABI"
  THEN buffer(FOV_radius(1740 - reduce_abi_fov, sat_height), PlanePoints(sat_height))
  ELSE buffer(FOV_radius(1615, sat_height), PlanePoints(sat_height))
         \cap cutout(sat_height, PlanePoints(sat_height))

(* tools.field_of_view: pFOV_inst, pFOV_dom and the parameters of crs *)
FieldOfViewOf(G, inst, sat_height) ==
  [outcome |-> "ok", errat |-> "", trace |-> <<>>,
   result |-> << [inst |-> inst,
                  dom |-> IF G.title = "ABI"
                          THEN dom_border(G, sat_height, PlanePoints(sat_height)) \cap inst
                          ELSE {},
                  central_longitude |-> G.nadir_lon,
                  satellite_height |-> sat_height] >>]

field_of_view(G, reduce_abi_fov) ==
  FieldOfViewOf(G, pFOV_inst(G, sat_height_of(G), reduce_abi_fov), sat_height_of(G))

(* fieldOfViewAccessor.full_disk; the accessor is made from a dataset that *)
(* has a goes_imager_projection                                            *)
full_disk(ds) ==
  IF ~ds.goes_imager_projection
  THEN [outcome |-> "error", errat |-> "accessor", trace |-> <<>>, result |-> <<>>]
  ELSE [outcome |-> "ok", errat |-> "", trace |-> <<>>,
        result |-> << [inst |-> pFOV_inst(ds, sat_height_of(ds), 6)] >>]

(* fieldOfViewAccessor.domain: the accessor is made first, then the title  *)
(* is looked at                                                            *)
FOV_domain(ds) ==
  IF ~ds.goes_imager_projection
  THEN [outcome |-> "error", errat |-> "accessor", trace |-> <<>>, result |-> <<>>]
  ELSE IF ds.title # "ABI"
  THEN [outcome |-> "error", errat |-> "domain", trace |-> <<>>, result |-> <<>>]
  ELSE [outcome |-> "ok", errat |-> "", trace |-> <<>>,
        result |-> << [dom |-> dom_border(ds, sat_height_of(ds),
                                          PlanePoints(sat_height_of(ds)))
                                 \cap pFOV_inst(ds, sat_height_of(ds), 6)] >>]

----------------------------------------------------------------------------
(* The start, end and recent arguments of goes_timerange and               *)
(* goes_single_point_timerange: data.py.  A datetime is its tick, a        *)
(* timedelta its number of ticks; a string of two digits is a date pandas  *)
(* can parse, the string "1H" a timedelta of one hour.                     *)
PyDatetime(t) == [datetime |-> t]
PyTimedelta(d) == [timedelta |-> d]
s_1H == <<"1", "H">>

(* hasattr(v, "second") and hasattr(v, "seconds") *)
hasattr_second(v) == DOMAIN v = {"datetime"}
hasattr_seconds(v) == DOMAIN v = {"timedelta"}

(* int(ch) of a digit *)
DigitValue(ch) == CHOOSE n \in 0..9 : DigitChar[n + 1] = ch

(* if isinstance(v, str): v = pd.to_datetime(v) *)
ParsedDatetime(v) ==
  IF ~IsStr(v) THEN [err |-> FALSE, value |-> v]
  ELSE IF Len(v.str) = 2 /\ IsDigit(v.str[1]) /\ IsDigit(v.str[2])
  THEN [err |-> FALSE,
        value |-> PyDatetime(10 * DigitValue(v.str[1]) + DigitValue(v.str[2]))]
  ELSE [err |-> TRUE]

(* if isinstance(recent, str): recent = pd.to_timedelta(recent) *)
ParsedTimedelta(v) ==
  IF ~IsStr(v) THEN [err |-> FALSE, value |-> v]
  ELSE IF v.str = s_1H THEN [err |-> FALSE, value |-> PyTimedelta(HourTicks)]
  ELSE [err |-> TRUE]

(* check1 = start is not None and end is not None; check2 = recent is not  *)
(* None; assert check1 or check2                                           *)
RequiredGiven(start, end, recent) ==
  (~IsNone(start) /\ ~IsNone(end)) \/ ~IsNone(recent)

(* the assertions on start, end and recent: "" when they pass *)
WindowAssertions(start, end, recent) ==
  IF ~RequiredGiven(start, end, recent) THEN "assert_required"
  ELSE IF ~IsNone(start) /\ ~IsNone(end)
  THEN (IF hasattr_second(start) /\ hasattr_second(end) THEN ""
        ELSE "assert_datetime")
  ELSE IF ~IsNone(recent)
  THEN (IF hasattr_seconds(recent) THEN "" ELSE "assert_timedelta")
  ELSE ""

(* a variant of WindowOf: a recent that is no timedelta is not used *)
WindowOf_Lenient(start, end, recent, now) ==
  IF hasattr_seconds(recent)
  THEN [err |-> FALSE, start |-> PyDatetime(now - recent.timedelta),
        end |-> PyDatetime(now)]
  ELSE [err |-> FALSE, start |-> start, end |-> end]

(* if recent is not None: start = datetime.utcnow() - recent;              *)
(* end = datetime.utcnow().  A datetime minus a timedelta is a datetime, a *)
(* datetime minus a datetime is a timedelta, anything else a TypeError.    *)
WindowOf(start, end, recent, now) ==
  IF IsNone(recent) THEN [err |-> FALSE, start |-> start, end |-> end]
  ELSE IF hasattr_seconds(recent)
  THEN [err |-> FALSE, start |-> PyDatetime(now - recent.timedelta),
        end |-> PyDatetime(now)]
  ELSE IF hasattr_second(recent)
  THEN [err |-> FALSE, start |-> PyTimedelta(now - recent.datetime),
        end |-> PyDatetime(now)]
  ELSE [err |-> TRUE]

(* start = pd.to_datetime(start); end = pd.to_datetime(end) in             *)
(* _goes_file_df: a timedelta is not convertible to datetime               *)
RetrieveWindow(chk, w, bands, download, overwrite, return_as, copies) ==
  IF w.err
  THEN Done("error", "utcnow_minus_recent", <<>>, <<"check">>, NotDownloaded(copies))
  ELSE IF ~(hasattr_second(w.start) /\ hasattr_second(w.end))
  THEN Done("error", "to_datetime", <<>>, <<"check">>, NotDownloaded(copies))
  ELSE RetrieveChecked(chk, w.start.datetime, w.end.datetime, bands,
                       download, overwrite, return_as, copies)

RetrieveAsserted(chk, asserted, start, end, recent, now, bands, download, overwrite, return_as, copies) ==
  IF chk.err
  THEN Done("error", "check_param", <<>>, <<"check">>, NotDownloaded(copies))
  ELSE IF asserted # ""
  THEN Done("error", asserted, <<>>, <<"check">>, NotDownloaded(copies))
  ELSE RetrieveWindow(chk, WindowOf(start, end, recent, now), bands,
                      download, overwrite, return_as, copies)

RetrieveParsed(start, end, recent, now, chk, bands, download, overwrite, return_as, copies) ==
  IF start.err \/ end.err THEN Done("error", "to_datetime", <<>>, <<>>, NotDownloaded(copies))
  ELSE IF recent.err
  THEN Done("error", "to_timedelta", <<>>, <<>>, NotDownloaded(copies))
  ELSE RetrieveAsserted(chk, WindowAssertions(start.value, end.value, recent.value),
                        start.value, end.value, recent.value, now, bands,
                        download, overwrite, return_as, copies)

(* goes_timerange(start, end, recent, ...) called at time now *)
goes_timerange_window(start, end, recent, now, satellite, product, domain, bands, download, overwrite, return_as, copies) ==
  RetrieveParsed(ParsedDatetime(start), ParsedDatetime(end),
                 ParsedTimedelta(recent), now,
                 _check_param_inputs(satellite, domain, product),
                 bands, download, overwrite, return_as, copies)

(* goes_single_point_timerange(latitude, longitude, start, end, recent,    *)
(* ...) called at time now, with return_as="filelist"                      *)
goes_single_point_timerange_window(start, end, recent, now, satellite, product, domain, bands, download, overwrite, copies) ==
  RetrieveParsed(ParsedDatetime(start), ParsedDatetime(end),
                 ParsedTimedelta(recent), now,
                 _check_param_inputs(satellite, domain, product),
                 bands, download, overwrite, "filelist", copies)

----------------------------------------------------------------------------
(* _download with its threads: data.py.  A task is do_download(src) for    *)
(* one row of df.file; its positions are the statements of do_download     *)
(* and of Path.mkdir(parents=True, exist_ok=True).                         *)

(* dst.parent, the directory of the hour, and the directories above it     *)
ParentDir(src) == <<src.bucket, src.product, src.hour>>
DirsAbove(dir) == <<dir[1], dir[2]>>

(* a variant of threads: one thread per task *)
threads_Unbounded(tasks, max_threads) == tasks

(* threads = min(tasks, max_threads) *)
threads(tasks, max_threads) == IF tasks < max_threads THEN tasks ELSE max_threads

(* the tasks a worker thread is running *)
Running(task) ==
  { ix \in 1..Len(task) : task[ix] \notin {"queued", "done", "get_raised", "mkdir_raised"} }
Finished(task) ==
  \A ix \in 1..Len(task) : task[ix] \in {"done", "get_raised", "mkdir_raised"}

(* a variant of FileExistsRaises: mkdir without exist_ok *)
FileExistsRaises_NotOk(isdir) == TRUE

(* Path.mkdir: except OSError: if not exist_ok or not self.is_dir(): raise *)
(* with exist_ok=True                                                      *)
FileExistsRaises(isdir) == ~isdir

(* os.mkdir(dir) where the directory may have been made meanwhile: the     *)
(* next position of the task and the directories after it                  *)
os_mkdir(dir, made, missing) ==
  IF dir \in made
  THEN [pc |-> IF FileExistsRaises(dir \in made) THEN "mkdir_raised" ELSE "is_file",
        dirs |-> made]
  ELSE IF DirsAbove(dir) \notin made
  THEN [pc |-> missing, dirs |-> made]
  ELSE [pc |-> "is_file", dirs |-> made \cup {dir}]

----------------------------------------------------------------------------
(* The calls *)
Times == 0..(MaxT + 1)
Satellites == {PyInt(16)}
BandsArgs == {PyNone, PyInt(1), PyList(<<2, 17>>)}

(* the requests of the selection runs: mesoscale radiances *)
SelProducts == {s_Rad, s_RadM}
SelDomains == {PyStr(s_M), PyStr(s_M1), PyStr(s_M2)}

(* the requests of the parameter runs *)
Products == {s_Rad, s_RadM, s_LCFA}
Domains == {PyNone, PyStr(s_M), PyStr(s_M1), PyStr(s_M2), PyStr(s_M3)}

(* no thread pool *)
NoPool == [main |-> "none", task |-> <<>>]

NoCall ==
  /\ call = [op |-> "none"]
  /\ outcome = "none"
  /\ errat = ""
  /\ result = <<>>
  /\ trace = <<>>
  /\ disk = {}
  /\ fetched = {}
  /\ pool = NoPool
  /\ dirs = {}

Init == archive \in ArchivesUpTo(MesoFiles, MaxFiles) /\ NoCall

ParamInit == archive \in ArchivesUpTo(AllFiles, ParamFiles) /\ NoCall

(* A call is made by a caller that holds no result of an earlier call.     *)
GoesNearesttime(products, domains) ==
  /\ call.op = "none"
  /\ \E attime \in Times, within \in 0..MaxWithin, satellite \in Satellites,
     product \in products, domain \in domains, bands \in BandsArgs :
      \E r \in {goes_nearesttime(attime, within, satellite, product, domain, bands)} :
      /\ call' = [op |-> "goes_nearesttime", attime |-> attime, within |-> within,
                  satellite |-> satellite, product |-> product, domain |-> domain,
                  bands |-> bands]
      /\ outcome' = r.outcome
      /\ errat' = r.errat
      /\ result' = r.result
      /\ trace' = r.trace
      /\ UNCHANGED <<archive, disk, fetched, pool, dirs>>

GoesTimerange(products, domains) ==
  /\ call.op = "none"
  /\ \E start \in Times, satellite \in Satellites,
        product \in products, domain \in domains, bands \in BandsArgs :
      \E end \in start..(MaxT + 1) :
      \E r \in {goes_timerange(start, end, satellite, product, domain, bands)} :
      /\ call' = [op |-> "goes_timerange", start |-> start, end |-> end,
                  satellite |-> satellite, product |-> product, domain |-> domain,
                  bands |-> bands]
      /\ outcome' = r.outcome
      /\ errat' = r.errat
      /\ result' = r.result
      /\ trace' = r.trace
      /\ UNCHANGED <<archive, disk, fetched, pool, dirs>>

GoesLatest(products, domains) ==
  /\ call.op = "none"
  /\ \E now \in Times, satellite \in Satellites,
        product \in products, domain \in domains, bands \in BandsArgs :
      \E r \in {goes_latest(now, satellite, product, domain, bands)} :
      /\ call' = [op |-> "goes_latest", now |-> now,
                  satellite |-> satellite, product |-> product, domain |-> domain,
                  bands |-> bands]
      /\ outcome' = r.outcome
      /\ errat' = r.errat
      /\ result' = r.result
      /\ trace' = r.trace
      /\ UNCHANGED <<archive, disk, fetched, pool, dirs>>

(* The caller is done with the result: nothing of a query is kept but the  *)
(* local copies.                                                           *)
Discard ==
  /\ call.op # "none"
  /\ pool.main \in {"none", "returned"}
  /\ call' = [op |-> "none"]
  /\ outcome' = "none"
  /\ errat' = ""
  /\ result' = <<>>
  /\ trace' = <<>>
  /\ disk' = { [c EXCEPT !.copy = "old"] : c \in disk }
  /\ fetched' = {}
  /\ pool' = NoPool
  /\ UNCHANGED <<archive, dirs>>

Next ==
  \/ GoesNearesttime(SelProducts, SelDomains)
  \/ GoesTimerange(SelProducts, SelDomains)
  \/ GoesLatest(SelProducts, SelDomains)
  \/ Discard

Spec == Init /\ [][Next]_vars

ParamNext ==
  \/ GoesNearesttime(Products, Domains)
  \/ GoesTimerange(Products, Domains)
  \/ GoesLatest(Products, Domains)
  \/ Discard

ParamSpec == ParamInit /\ [][ParamNext]_vars

(* The archives of the timestamp runs: files of one sector, some of them   *)
(* with a start, end or creation part that is no timestamp text.           *)
ParseFiles == 2
MalformedFiles ==
  { [f EXCEPT ![part] = -1] :
      f \in { g \in MesoFiles : g.scene = s_M1 /\ g.start = HourTicks - 1 },
      part \in {"start", "end", "creation"} }
ParseProducts == {s_RadM}
ParseDomains == {PyStr(s_M)}

ParseInit ==
  /\ archive \in ArchivesUpTo({ g \in MesoFiles : g.scene = s_M1 } \cup MalformedFiles,
                              ParseFiles)
  /\ NoCall

ParseNext ==
  \/ GoesNearesttime(ParseProducts, ParseDomains)
  \/ GoesTimerange(ParseProducts, ParseDomains)
  \/ GoesLatest(ParseProducts, ParseDomains)
  \/ Discard

ParseSpec == ParseInit /\ [][ParseNext]_vars

(* The retrievals of the download runs: band 1 of one sector.              *)
DownloadFiles == 2
DownloadInit ==
  /\ archive \in ArchivesUpTo({ g \in MesoFiles : g.scene = s_M1 /\ g.band = 1 },
                              DownloadFiles)
  /\ NoCall

GoesTimerangeRetrieve ==
  /\ call.op = "none"
  /\ \E start \in Times, download \in BOOLEAN, overwrite \in BOOLEAN,
        return_as \in {"filelist", "xarray"} :
      \E end \in start..(MaxT + 1) :
      \E r \in {goes_timerange_retrieve(start, end, PyInt(16), s_RadM, PyStr(s_M),
                                        PyNone, download, overwrite, return_as, disk)} :
      /\ call' = [op |-> "goes_timerange", start |-> start, end |-> end,
                  satellite |-> PyInt(16), product |-> s_RadM, domain |-> PyStr(s_M),
                  bands |-> PyNone, download |-> download, overwrite |-> overwrite,
                  return_as |-> return_as]
      /\ outcome' = r.outcome
      /\ errat' = r.errat
      /\ result' = r.result
      /\ trace' = r.trace
      /\ disk' = r.disk
      /\ fetched' = r.fetched
      /\ UNCHANGED <<archive, pool, dirs>>

DownloadNext ==
  \/ GoesTimerangeRetrieve
  \/ Discard

DownloadSpec == DownloadInit /\ [][DownloadNext]_vars

(* The calls through a GOES object.  The archive holds band 1 of the two   *)
(* sectors of noaa-goes16.  latest and nearesttime are called with         *)
(* download=False, timerange and single_point_timerange with the           *)
(* configured download=True, overwrite=False and return_as="filelist".     *)
ObjectFiles == 2
ObjectSatellites == {PyInt(16), PyInt(18), PyInt(19), PyStr(s_noaa_goes19)}
ObjectProducts == {s_Rad, s_RadM}
ObjectDomains == {PyStr(s_M), PyStr(s_M1), PyStr(s_M2)}

(* the objects the constructor returns, each with its arguments *)
Objects ==
  { o \in { [satellite |-> satellite, product |-> product, domain |-> domain,
             self |-> GOES(satellite, product, domain, PyNone)] :
               satellite \in ObjectSatellites, product \in ObjectProducts,
               domain \in ObjectDomains } : ~o.self.err }

ObjectInit ==
  /\ archive \in ArchivesUpTo({ g \in MesoFiles : g.band = 1 }, ObjectFiles)
  /\ NoCall

(* GOES.latest *)
GOESLatest ==
  /\ call.op = "none"
  /\ \E o \in Objects, now \in Times :
      \E r \in {goes_latest(now, PyStr(o.self.satellite), o.self.product,
                            o.self.domain, o.self.bands)} :
      /\ call' = [op |-> "GOES.latest", now |-> now, satellite |-> o.satellite,
                  product |-> o.product, domain |-> o.domain, self |-> o.self]
      /\ outcome' = r.outcome
      /\ errat' = r.errat
      /\ result' = r.result
      /\ trace' = r.trace
      /\ UNCHANGED <<archive, disk, fetched, pool, dirs>>

(* GOES.nearesttime, within the configured hour *)
GOESNearesttime ==
  /\ call.op = "none"
  /\ \E o \in Objects, attime \in Times :
      \E r \in {goes_nearesttime(attime, HourTicks, PyStr(o.self.satellite),
                                 o.self.product, o.self.domain, o.self.bands)} :
      /\ call' = [op |-> "GOES.nearesttime", attime |-> attime,
                  satellite |-> o.satellite,
                  product |-> o.product, domain |-> o.domain, self |-> o.self]
      /\ outcome' = r.outcome
      /\ errat' = r.errat
      /\ result' = r.result
      /\ trace' = r.trace
      /\ UNCHANGED <<archive, disk, fetched, pool, dirs>>

(* GOES.timerange *)
GOESTimerange ==
  /\ call.op = "none"
  /\ \E o \in Objects, start \in Times :
      \E end \in start..(MaxT + 1) :
      \E r \in {goes_timerange_retrieve(start, end, PyStr(o.self.satellite),
                                        o.self.product, o.self.domain, o.self.bands,
                                        TRUE, FALSE, "filelist", disk)} :
      /\ call' = [op |-> "GOES.timerange", start |-> start, end |-> end,
                  satellite |-> o.satellite,
                  product |-> o.product, domain |-> o.domain, self |-> o.self]
      /\ outcome' = r.outcome
      /\ errat' = r.errat
      /\ result' = r.result
      /\ trace' = r.trace
      /\ disk' = r.disk
      /\ fetched' = r.fetched
      /\ UNCHANGED <<archive, pool, dirs>>

(* GOES.single_point_timerange; the point is used by return_as="xarray"    *)
(* only                                                                    *)
GOESSinglePointTimerange ==
  /\ call.op = "none"
  /\ \E o \in Objects, start \in Times :
      \E end \in start..(MaxT + 1) :
      \E r \in {goes_single_point_timerange(start, end, PyStr(o.self.satellite),
                                            o.self.product, o.self.domain,
                                            o.self.bands, TRUE, FALSE, disk)} :
      /\ call' = [op |-> "GOES.single_point_timerange", start |-> start, end |-> end,
                  satellite |-> o.satellite,
                  product |-> o.product, domain |-> o.domain, self |-> o.self]
      /\ outcome' = r.outcome
      /\ errat' = r.errat
      /\ result' = r.result
      /\ trace' = r.trace
      /\ disk' = r.disk
      /\ fetched' = r.fetched
      /\ UNCHANGED <<archive, pool, dirs>>

ObjectNext ==
  \/ GOESLatest
  \/ GOESNearesttime
  \/ GOESTimerange
  \/ GOESSinglePointTimerange
  \/ Discard

ObjectSpec == ObjectInit /\ [][ObjectNext]_vars

(* The calls of the satellite runs: _check_param_inputs with the keys and  *)
(* the aliases of _satellite, aliases in lower case, and values that are   *)
(* neither.                                                                *)
SatelliteArgs ==
  UNION { {PyStr(_satellite[ix].key)}
          \cup { _satellite[ix].aliases[jx] : jx \in 1..Len(_satellite[ix].aliases) } :
          ix \in 1..Len(_satellite) }
  \cup { PyStr(<<"g", "1", "6">>), PyStr(<<"e", "a", "s", "t">>),
         PyStr(<<"g", "1", "7">>), PyStr(<<"w", "e", "s", "t">>),
         PyStr(<<"g", "o", "e", "s", "1", "8">>) }
  \cup { PyInt(19), PyStr(s_noaa_goes19), PyStr(<<"G", "1", "9">>),
         PyStr(Upper(s_noaa_goes16)), PyNone }

AliasInit == archive = {} /\ NoCall

CheckParamInputs ==
  /\ call.op = "none"
  /\ \E satellite \in SatelliteArgs, domain \in Domains, product \in Products :
      \E r \in {_check_param_inputs(satellite, domain, product)} :
      /\ call' = [op |-> "_check_param_inputs", satellite |-> satellite,
                  domain |-> domain, product |-> product]
      /\ outcome' = IF r.err THEN "error" ELSE "ok"
      /\ errat' = IF r.err THEN "check_param" ELSE ""
      /\ result' = IF r.err THEN <<>> ELSE <<r>>
      /\ trace' = <<"check">>
      /\ UNCHANGED <<archive, disk, fetched, pool, dirs>>

AliasNext ==
  \/ CheckParamInputs
  \/ Discard

AliasSpec == AliasInit /\ [][AliasNext]_vars

(* The constructions of GOES objects: GOES(satellite, product, domain)     *)
(* with the product of the configuration as the default                    *)
s_X == <<"X">>
ClassProducts == {s_MCMIP, s_ABI, s_GLM, s_Rad, s_RadM, s_LCFA}
ClassDomains == {PyNone, PyStr(s_C), PyStr(s_F), PyStr(s_M), PyStr(s_M1),
                 PyStr(s_M2), PyStr(s_X)}

ClassInit == archive = {} /\ NoCall

Construct ==
  /\ call.op = "none"
  /\ \E satellite \in SatelliteArgs, product \in ClassProducts,
        domain \in ClassDomains :
      \E self \in {GOES(satellite, product, domain, PyNone)} :
      /\ call' = [op |-> "GOES", satellite |-> satellite, product |-> product,
                  domain |-> domain]
      /\ outcome' = IF self.err THEN "error" ELSE "ok"
      /\ errat' = IF self.err THEN "GOES" ELSE ""
      /\ result' = IF self.err THEN <<>> ELSE <<self>>
      /\ trace' = <<"__init__">>
      /\ UNCHANGED <<archive, disk, fetched, pool, dirs>>

ClassNext ==
  \/ Construct
  \/ Discard

ClassSpec == ClassInit /\ [][ClassNext]_vars

(* The calls with start, end and recent arguments of every kind.  The      *)
(* archive holds band 1 of sector M1 of noaa-goes16; the calls are made at *)
(* time WindowNow with download=False.                                     *)
WindowFiles == 1
WindowNow == MaxT + 1
s_01 == <<"0", "1">>
StartArgs == {PyNone, PyDatetime(0), PyDatetime(MaxT), PyStr(s_01), PyStr(s_X),
              PyInt(1)}
RecentArgs == {PyNone, PyTimedelta(1), PyTimedelta(HourTicks), PyStr(s_1H),
               PyStr(s_X), PyInt(1), PyDatetime(0)}
WindowSatellites == {PyInt(16), PyInt(19)}

WindowInit ==
  /\ archive \in ArchivesUpTo({ g \in MesoFiles : g.scene = s_M1 /\ g.band = 1 },
                              WindowFiles)
  /\ NoCall

GoesTimerangeWindow ==
  /\ call.op = "none"
  /\ \E start \in StartArgs, end \in StartArgs, recent \in RecentArgs,
        satellite \in WindowSatellites :
      \E r \in {goes_timerange_window(start, end, recent, WindowNow, satellite,
                                      s_RadM, PyStr(s_M), PyNone,
                                      FALSE, FALSE, "filelist", disk)} :
      /\ call' = [op |-> "goes_timerange", start |-> start, end |-> end,
                  recent |-> recent, satellite |-> satellite]
      /\ outcome' = r.outcome
      /\ errat' = r.errat
      /\ result' = r.result
      /\ trace' = r.trace
      /\ disk' = r.disk
      /\ fetched' = r.fetched
      /\ UNCHANGED <<archive, pool, dirs>>

GoesSinglePointTimerangeWindow ==
  /\ call.op = "none"
  /\ \E start \in StartArgs, end \in StartArgs, recent \in RecentArgs,
        satellite \in WindowSatellites :
      \E r \in {goes_single_point_timerange_window(start, end, recent, WindowNow,
                                                   satellite, s_RadM, PyStr(s_M),
                                                   PyNone, FALSE, FALSE, disk)} :
      /\ call' = [op |-> "goes_single_point_timerange", start |-> start,
                  end |-> end, recent |-> recent, satellite |-> satellite]
      /\ outcome' = r.outcome
      /\ errat' = r.errat
      /\ result' = r.result
      /\ trace' = r.trace
      /\ disk' = r.disk
      /\ fetched' = r.fetched
      /\ UNCHANGED <<archive, pool, dirs>>

WindowNext ==
  \/ GoesTimerangeWindow
  \/ GoesSinglePointTimerangeWindow
  \/ Discard

WindowSpec == WindowInit /\ [][WindowNext]_vars

(* The runs of _download with its threads.  The files are those of band 1  *)
(* of sector M1 with the starts 0..PoolFiles, in the directories of two    *)
(* hours; df.file has 1..PoolFiles of them.  Before the call some          *)
(* directories and at most one file are there.                             *)
PoolFiles == 2
MaxThreads == 2
PoolUniverse ==
  { g \in MesoFiles : g.scene = s_M1 /\ g.band = 1 /\ g.start <= PoolFiles }
PoolRows ==
  { files \in UNION { [1..n -> PoolUniverse] : n \in 1..PoolFiles } :
      \A ix \in 1..Len(files) : \A jx \in 1..Len(files) :
        files[ix] = files[jx] => ix = jx }
PoolDirs ==
  { made \in SUBSET ({ ParentDir(g) : g \in PoolUniverse }
                     \cup { DirsAbove(ParentDir(g)) : g \in PoolUniverse }) :
      \A dir \in made : Len(dir) = 3 => DirsAbove(dir) \in made }

PoolInit ==
  /\ archive = {}
  /\ call = [op |-> "none"]
  /\ outcome = "none"
  /\ errat = ""
  /\ result = <<>>
  /\ trace = <<>>
  /\ fetched = {}
  /\ pool = NoPool
  /\ dirs \in PoolDirs
  /\ disk \in { {} } \cup { { [file |-> g, copy |-> "old"] } :
                            g \in { h \in PoolUniverse : ParentDir(h) \in dirs } }

(* with ThreadPoolExecutor(threads) as exe:                                *)
(*     futures = [exe.submit(do_download, src) for src in df.file]         *)
Submit ==
  /\ call.op = "none"
  /\ \E files \in PoolRows, overwrite \in BOOLEAN, max_threads \in 1..MaxThreads :
      /\ call' = [op |-> "_download", files |-> files, overwrite |-> overwrite,
                  max_threads |-> max_threads]
      /\ pool' = [main |-> "as_completed",
                  task |-> [ix \in 1..Len(files) |-> "queued"]]
  /\ UNCHANGED <<archive, outcome, errat, result, trace, disk, fetched, dirs>>

(* a worker thread that is free takes the next task of the queue *)
StartTask ==
  /\ \E ix \in 1..Len(pool.task) :
      /\ pool.task[ix] = "queued"
      /\ \A jx \in 1..(ix - 1) : pool.task[jx] # "queued"
      /\ Cardinality(Running(pool.task)) < threads(Len(pool.task), call.max_threads)
      /\ pool' = [pool EXCEPT !.task[ix] = "is_dir"]
  /\ UNCHANGED <<archive, call, outcome, errat, result, trace, disk, fetched, dirs>>

(* if not dst.parent.is_dir(): *)
IsDir ==
  /\ \E ix \in 1..Len(pool.task) :
      /\ pool.task[ix] = "is_dir"
      /\ pool' = [pool EXCEPT !.task[ix] =
                    IF ParentDir(call.files[ix]) \in dirs THEN "is_file" ELSE "mkdir"]
  /\ UNCHANGED <<archive, call, outcome, errat, result, trace, disk, fetched, dirs>>

(* dst.parent.mkdir(parents=True, exist_ok=True): os.mkdir(self) *)
Mkdir ==
  /\ \E ix \in 1..Len(pool.task) :
      /\ pool.task[ix] = "mkdir"
      /\ \E r \in {os_mkdir(ParentDir(call.files[ix]), dirs, "mkdir_parents")} :
          /\ pool' = [pool EXCEPT !.task[ix] = r.pc]
          /\ dirs' = r.dirs
  /\ UNCHANGED <<archive, call, outcome, errat, result, trace, disk, fetched>>

(* except FileNotFoundError: self.parent.mkdir(parents=True, exist_ok=True) *)
MkdirParents ==
  /\ \E ix \in 1..Len(pool.task) :
      /\ pool.task[ix] = "mkdir_parents"
      /\ pool' = [pool EXCEPT !.task[ix] = "mkdir_again"]
      /\ dirs' = dirs \cup {DirsAbove(ParentDir(call.files[ix]))}
  /\ UNCHANGED <<archive, call, outcome, errat, result, trace, disk, fetched>>

(* self.mkdir(mode, parents=False, exist_ok=exist_ok) *)
MkdirAgain ==
  /\ \E ix \in 1..Len(pool.task) :
      /\ pool.task[ix] = "mkdir_again"
      /\ \E r \in {os_mkdir(ParentDir(call.files[ix]), dirs, "mkdir_raised")} :
          /\ pool' = [pool EXCEPT !.task[ix] = r.pc]
          /\ dirs' = r.dirs
  /\ UNCHANGED <<archive, call, outcome, errat, result, trace, disk, fetched>>

(* if dst.is_file() and not overwrite: *)
IsFile ==
  /\ \E ix \in 1..Len(pool.task) :
      /\ pool.task[ix] = "is_file"
      /\ pool' = [pool EXCEPT !.task[ix] =
                    IF Fetches(disk, call.files[ix], call.overwrite)
                    THEN "get" ELSE "done"]
  /\ UNCHANGED <<archive, call, outcome, errat, result, trace, disk, fetched, dirs>>

(* fs.get(src, str(dst)) writes the file *)
Get ==
  /\ \E ix \in 1..Len(pool.task) :
      /\ pool.task[ix] = "get"
      /\ ParentDir(call.files[ix]) \in dirs
      /\ pool' = [pool EXCEPT !.task[ix] = "done"]
      /\ disk' = Written(disk, {call.files[ix]})
      /\ fetched' = fetched \cup {call.files[ix]}
  /\ UNCHANGED <<archive, call, outcome, errat, result, trace, dirs>>

(* fs.get(src, str(dst)) raises *)
GetRaises ==
  /\ \E ix \in 1..Len(pool.task) :
      /\ pool.task[ix] = "get"
      /\ pool' = [pool EXCEPT !.task[ix] = "get_raised"]
  /\ UNCHANGED <<archive, call, outcome, errat, result, trace, disk, fetched, dirs>>

(* this_list = [future.result() for future in as_completed(futures)]:      *)
(* the result of a task that raised raises in the calling thread           *)
ResultRaises ==
  /\ pool.main = "as_completed"
  /\ \E ix \in 1..Len(pool.task) : pool.task[ix] \in {"get_raised", "mkdir_raised"}
  /\ pool' = [pool EXCEPT !.main = "raising"]
  /\ UNCHANGED <<archive, call, outcome, errat, result, trace, disk, fetched, dirs>>

(* every future has given its result *)
AllResults ==
  /\ pool.main = "as_completed"
  /\ \A ix \in 1..Len(pool.task) : pool.task[ix] = "done"
  /\ pool' = [pool EXCEPT !.main = "exit"]
  /\ UNCHANGED <<archive, call, outcome, errat, result, trace, disk, fetched, dirs>>

(* the end of the with block: exe.shutdown(wait=True), then the exception  *)
(* goes on to the caller, or the message is printed and _download returns  *)
Shutdown ==
  /\ pool.main \in {"raising", "exit"}
  /\ Finished(pool.task)
  /\ outcome' = IF pool.main = "raising" THEN "error" ELSE "ok"
  /\ errat' = IF pool.main = "raising" THEN "do_download" ELSE ""
  /\ pool' = [pool EXCEPT !.main = "returned"]
  /\ UNCHANGED <<archive, call, result, trace, disk, fetched, dirs>>

PoolNext ==
  \/ Submit
  \/ StartTask
  \/ IsDir
  \/ Mkdir
  \/ MkdirParents
  \/ MkdirAgain
  \/ IsFile
  \/ Get
  \/ GetRaises
  \/ ResultRaises
  \/ AllResults
  \/ Shutdown
  \/ Discard

PoolSpec == PoolInit /\ [][PoolNext]_vars

(* The runs of _goes_file_df by the calendar.  The archive has up to       *)
(* DateFiles GLM files whose starts are within DateTicks ticks of 22:00 of *)
(* the last day of February or of the year 2020, each in the directory of  *)
(* the hour of its start; the window is any two times of one of the two    *)
(* nights.                                                                 *)
DateFiles == 2
DateTicks == 5
Nights ==
  { Timestamp([year |-> 2020, month |-> 2, day |-> 28, hour |-> 22]),
    Timestamp([year |-> 2020, month |-> 12, day |-> 31, hour |-> 22]) }
NightTimes(night) == { night + d : d \in 0..DateTicks }
DatedFiles ==
  { [bucket |-> s_noaa_goes16, product |-> s_LCFA, scene |-> <<>>,
     mode |-> 0, band |-> 0, hour |-> strftime_YjH(t),
     start |-> t, end |-> t + 1, creation |-> t + 2] :
       t \in UNION { NightTimes(night) : night \in Nights } }

DateInit ==
  /\ archive \in ArchivesUpTo(DatedFiles, DateFiles)
  /\ NoCall

GoesFileDf ==
  /\ call.op = "none"
  /\ \E night \in Nights :
     \E start \in NightTimes(night), end \in NightTimes(night) :
     \E r \in {_goes_file_df_dates(s_noaa_goes16, s_LCFA, start, end, PyNone)} :
       /\ call' = [op |-> "_goes_file_df", start |-> start, end |-> end]
       /\ outcome' = IF r.err THEN "error" ELSE "ok"
       /\ errat' = IF r.err THEN "_goes_file_df" ELSE ""
       /\ result' = r.df
       /\ trace' = ListedDirectories(DATES(start, end))
  /\ UNCHANGED <<archive, disk, fetched, pool, dirs>>

DateNext == GoesFileDf \/ Discard

DateSpec == DateInit /\ [][DateNext]_vars

(* The runs of goes_single_point_timerange with return_as="xarray": band 1 *)
(* of one sector, save_dir the configured directory or another one.        *)
s_scratch == <<"/", "s", "c", "r", "a", "t", "c", "h">>
SaveDirs == {config_save_dir, s_scratch}

SaveDirInit ==
  /\ archive \in ArchivesUpTo({ g \in MesoFiles : g.scene = s_M1 /\ g.band = 1 },
                              DownloadFiles)
  /\ NoCall

GoesSinglePointTimerangeXarray ==
  /\ call.op = "none"
  /\ \E start \in Times, save_dir \in SaveDirs, download \in BOOLEAN,
        overwrite \in BOOLEAN :
      \E end \in start..(MaxT + 1) :
      \E r \in {goes_single_point_timerange_xarray(start, end, PyInt(16), s_RadM,
                    PyStr(s_M), PyNone, save_dir, download, overwrite, disk)} :
      /\ call' = [op |-> "goes_single_point_timerange", start |-> start, end |-> end,
                  save_dir |-> save_dir, download |-> download,
                  overwrite |-> overwrite, return_as |-> "xarray"]
      /\ outcome' = r.outcome
      /\ errat' = r.errat
      /\ result' = r.result
      /\ trace' = r.trace
      /\ disk' = r.disk
      /\ fetched' = r.fetched
      /\ UNCHANGED <<archive, pool, dirs>>

SaveDirNext ==
  \/ GoesSinglePointTimerangeXarray
  \/ Discard

SaveDirSpec == SaveDirInit /\ [][SaveDirNext]_vars

(* The datasets of the field-of-view runs *)
MaxHeight == 3
NadirLons == {-137, -75}
ScanEdges == {-6, -3, 0, 6}
Datasets ==
  { [title |-> "GLM", nominal_satellite_height |-> h, nadir_lon |-> lon,
     goes_imager_projection |-> b] :
       h \in 1..MaxHeight, lon \in NadirLons, b \in BOOLEAN }
  \cup
  { G \in { [title |-> "ABI", perspective_point_height |-> 1000 * h,
              nadir_lon |-> lon, goes_imager_projection |-> TRUE,
              x |-> <<x0, x1>>, y |-> <<6, 0>>] :
                h \in 1..MaxHeight, lon \in NadirLons,
                x0 \in ScanEdges, x1 \in ScanEdges } : G.x[1] < G.x[2] }

FovInit == archive = {} /\ NoCall

FieldOfView ==
  /\ call.op = "none"
  /\ \E G \in Datasets, reduce_abi_fov \in {0, 6} :
      \E r \in {field_of_view(G, reduce_abi_fov)} :
      /\ call' = [op |-> "field_of_view", G |-> G, reduce_abi_fov |-> reduce_abi_fov]
      /\ outcome' = r.outcome
      /\ errat' = r.errat
      /\ result' = r.result
      /\ trace' = r.trace
      /\ UNCHANGED <<archive, disk, fetched, pool, dirs>>

FullDisk ==
  /\ call.op = "none"
  /\ \E G \in Datasets :
      \E r \in {full_disk(G)} :
      /\ call' = [op |-> "full_disk", G |-> G]
      /\ outcome' = r.outcome
      /\ errat' = r.errat
      /\ result' = r.result
      /\ trace' = r.trace
      /\ UNCHANGED <<archive, disk, fetched, pool, dirs>>

Domain ==
  /\ call.op = "none"
  /\ \E G \in Datasets :
      \E r \in {FOV_domain(G)} :
      /\ call' = [op |-> "domain", G |-> G]
      /\ outcome' = r.outcome
      /\ errat' = r.errat
      /\ result' = r.result
      /\ trace' = r.trace
      /\ UNCHANGED <<archive, disk, fetched, pool, dirs>>

FovNext ==
  \/ FieldOfView
  \/ FullDisk
  \/ Domain
  \/ Discard

FovSpec == FovInit /\ [][FovNext]_vars

(* The requests of the coordinate runs.  A projection as a GOES file gives *)
(* it (in units of 1000 km), the same earth seen from a lower orbit, and a *)
(* flattened ellipsoid; and a sphere seen from very near.                  *)
MaxPoints == 2
Latitudes == {-50, 0, 20, 80, 90}
Longitudes == {-150, -70, 0, 10, 40, 50, 80, 110, 180}
Projections ==
  { [semi_major_axis |-> 6, semi_minor_axis |-> 6,
     perspective_point_height |-> 36, longitude_of_projection_origin |-> -70],
    [semi_major_axis |-> 6, semi_minor_axis |-> 6,
     perspective_point_height |-> 24, longitude_of_projection_origin |-> 0],
    [semi_major_axis |-> 8, semi_minor_axis |-> 5,
     perspective_point_height |-> 10, longitude_of_projection_origin |-> 0],
    [semi_major_axis |-> 5, semi_minor_axis |-> 5,
     perspective_point_height |-> 2, longitude_of_projection_origin |-> 0] }
ScanGrid == {-50, -10, 0, 10, 50}

GeoInit == archive = {} /\ NoCall

LatLonToScanAngles ==
  /\ call.op = "none"
  /\ \E n \in 1..MaxPoints :
      \E latitude \in [1..n -> Latitudes], longitude \in [1..n -> Longitudes],
         goes_imager_projection \in Projections :
      \E r \in {lat_lon_to_scan_angles(latitude, longitude, goes_imager_projection)} :
      /\ call' = [op |-> "lat_lon_to_scan_angles", latitude |-> latitude,
                  longitude |-> longitude,
                  goes_imager_projection |-> goes_imager_projection]
      /\ outcome' = r.outcome
      /\ errat' = r.errat
      /\ result' = r.result
      /\ trace' = r.trace
      /\ UNCHANGED <<archive, disk, fetched, pool, dirs>>

ScanAnglesToLatLon ==
  /\ call.op = "none"
  /\ \E x \in ScanGrid, y \in ScanGrid, goes_imager_projection \in Projections :
      /\ call' = [op |-> "scan_angles_to_lat_lon", x |-> x, y |-> y,
                  goes_imager_projection |-> goes_imager_projection]
      /\ outcome' = "ok"
      /\ errat' = ""
      /\ result' = <<scan_angles_to_lat_lon(x, y, goes_imager_projection)>>
      /\ trace' = <<>>
      /\ UNCHANGED <<archive, disk, fetched, pool, dirs>>

GeoNext ==
  \/ LatLonToScanAngles
  \/ ScanAnglesToLatLon
  \/ Discard

GeoSpec == GeoInit /\ [][GeoNext]_vars

----------------------------------------------------------------------------
(* What the properties speak about, stated on the archive and the call.    *)

Position(seq, x) == CHOOSE ix \in 1..Len(seq) : seq[ix] = x
InSeq(seq, x) == \E ix \in 1..Len(seq) : seq[ix] = x
Before(seq, x, y) == InSeq(seq, x) /\ InSeq(seq, y) /\ Position(seq, x) < Position(seq, y)

(* The files of the returned rows *)
ResultFiles == { result[ix].file : ix \in 1..Len(result) }
ResultStarts == { result[ix].start : ix \in 1..Len(result) }

DomainLetters == {s_C, s_F, s_M}
IsABIName(product) == StartsWith(Upper(product), s_ABI)
HasDomainSuffix(product) == LastChar(product) \in DomainLetters

(* The product directory a valid call reads *)
QueryProduct ==
  IF ~IsABIName(call.product) THEN s_LCFA
  ELSE IF HasDomainSuffix(call.product) THEN call.product
  ELSE call.product \o <<Upper(call.domain.str)[1]>>

BandsRequested == IF IsNone(call.bands) THEN {}
                  ELSE IF IsInt(call.bands) THEN {call.bands.int}
                  ELSE { call.bands.list[ix] : ix \in 1..Len(call.bands.list) }
BandWanted(f) == IsNone(call.bands) \/ ~IsABIName(call.product) \/ f.band \in BandsRequested

(* The mesoscale sector a call of goes_nearesttime asks for, <<>> if none  *)
SectorAsked == IF IsStr(call.domain) /\ Upper(call.domain.str) \in {s_M1, s_M2}
               THEN Upper(call.domain.str) ELSE <<>>
SectorWanted(f) == SectorAsked = <<>> \/ f.scene = SectorAsked

InWindow(f, start, end) == f.start >= start /\ f.end <= end

(* The candidates of a call of goes_nearesttime: the archived files of the *)
(* product inside the window that pass the band and sector filters.        *)
NearestCandidates ==
  { f \in archive : /\ f.bucket = s_noaa_goes16 /\ f.product = QueryProduct
                    /\ InWindow(f, call.attime - call.within, call.attime + call.within)
                    /\ BandWanted(f) /\ SectorWanted(f) }
Distance(t) == Abs(t - call.attime)

NearestOk == call.op = "goes_nearesttime" /\ outcome = "ok"

----------------------------------------------------------------------------
(* C1: goes_nearesttime returns every candidate whose start is the         *)
(* selected start and only candidates; all returned rows have one start.   *)
C1_AllRecordsOfNearestStart ==
  NearestOk =>
    /\ ResultFiles # {}
    /\ Cardinality(ResultStarts) = 1
    /\ ResultFiles = { f \in NearestCandidates : f.start \in ResultStarts }
    /\ Len(result) = Cardinality(ResultFiles)

(* two bands share the selected start, and another candidate does not *)
C1_Witness ==
  /\ NearestOk
  /\ Cardinality(ResultFiles) = 2
  /\ \E f \in ResultFiles, g \in ResultFiles : f.band # g.band

(* C2: the selected start is at minimum distance from attime among the     *)
(* starts of all candidates, in whatever order they were listed.           *)
C2_SelectedStartIsNearest ==
  NearestOk =>
    \A t \in ResultStarts : \A f \in NearestCandidates : Distance(t) <= Distance(f.start)

(* two candidates of one directory, listed in the order opposite to that   *)
(* of their starts, and the later one is selected                          *)
C2_Witness ==
  /\ NearestOk
  /\ \E f \in NearestCandidates, g \in NearestCandidates :
       /\ Hour(f.start) = Hour(g.start) /\ NameBefore(f, g) /\ g.start < f.start
       /\ Distance(f.start) < Distance(g.start)
       /\ f \in ResultFiles

(* Two candidate starts at the same distance on both sides of attime, and  *)
(* no candidate start nearer.                                              *)
TiedStarts ==
  { pair \in { <<f.start, g.start>> : f \in NearestCandidates, g \in NearestCandidates } :
      /\ pair[1] < call.attime /\ call.attime < pair[2]
      /\ Distance(pair[1]) = Distance(pair[2])
      /\ \A h \in NearestCandidates : Distance(h.start) >= Distance(pair[1]) }

(* C3 as claimed: on a tie the records of the earlier start are returned.  *)
C3_TieSelectsEarlier ==
  (NearestOk /\ TiedStarts # {}) => \A pair \in TiedStarts : ResultStarts = {pair[1]}

(* C3, amended: on a tie the records of the later start are returned.      *)
C3_TieSelectsLater ==
  (NearestOk /\ TiedStarts # {}) => \A pair \in TiedStarts : ResultStarts = {pair[2]}

C3_Witness == NearestOk /\ TiedStarts # {}

(* C4: a nearest-time query with valid parameters and no candidate ends    *)
(* with the no-data outcome and not with an error.                         *)
C4_EmptyIsNoData ==
  ( /\ call.op = "goes_nearesttime"
    /\ errat \notin {"check_param", "domain_upper"}
    /\ NearestCandidates = {} )
  => outcome = "nodata"

----------------------------------------------------------------------------
(* The files a call of goes_timerange asks for *)
RangeMatches ==
  { f \in archive : /\ f.bucket = s_noaa_goes16 /\ f.product = QueryProduct
                    /\ InWindow(f, call.start, call.end)
                    /\ BandWanted(f) }

(* C5: the range query returns exactly the archived records of the        *)
(* product with start >= window start and end <= window end (that pass a   *)
(* requested band filter), each once; when it fails on an empty listing    *)
(* there is no such record.                                                *)
C5_RangeIsStartAndEndInside ==
  /\ (call.op = "goes_timerange" /\ outcome = "ok") =>
        /\ ResultFiles = RangeMatches
        /\ Len(result) = Cardinality(ResultFiles)
  /\ (call.op = "goes_timerange" /\ errat = "file_df") => RangeMatches = {}

(* a record that starts before the window and ends inside it is left out,  *)
(* another one is returned                                                 *)
C5_Witness ==
  /\ call.op = "goes_timerange" /\ outcome = "ok"
  /\ ResultFiles # {}
  /\ \E f \in archive : /\ f.product = QueryProduct /\ BandWanted(f)
                        /\ f.start < call.start
                        /\ f.end >= call.start /\ f.end <= call.end
                        /\ f \notin ResultFiles

(* C6: every record goes_nearesttime returns lies inside                   *)
(* [attime - within, attime + within], and the time filter comes before    *)
(* the choice of the nearest time.                                         *)
C6_NearestInsideWindow ==
  call.op = "goes_nearesttime" =>
    /\ \A f \in ResultFiles : /\ f.start >= call.attime - call.within
                              /\ f.end <= call.attime + call.within
    /\ InSeq(trace, "nearest") => Before(trace, "time_filter", "nearest")

(* a record is returned although a listed record outside the window has a  *)
(* start at least as near to attime                                        *)
C6_Witness ==
  /\ NearestOk
  /\ \E f \in archive : /\ f.product = QueryProduct /\ BandWanted(f) /\ SectorWanted(f)
                        /\ f.end > call.attime + call.within
                        /\ \A t \in ResultStarts : Distance(f.start) <= Distance(t)

(* C7: lat_lon_to_scan_angles fails, and returns no scan angles for any    *)
(* point, whenever at least one point of the input violates                *)
(* H*(H - s_x) >= s_y^2 + (r_eq^2/r_pol^2)*s_z^2; when every point         *)
(* satisfies the inequality, equality included, it returns a result for    *)
(* every point.                                                            *)
GeoCalled == call.op = "lat_lon_to_scan_angles"
BatchPoints == 1..Len(call.latitude)
SideH(ix) ==
  LET H == HeightOf(call.goes_imager_projection)
      r_pol == call.goes_imager_projection.semi_minor_axis
      s == s_of(call.latitude[ix], call.longitude[ix], call.goes_imager_projection)
  IN  H * (H - s.s_x) * r_pol * r_pol
SideS(ix) ==
  LET r_eq == call.goes_imager_projection.semi_major_axis
      r_pol == call.goes_imager_projection.semi_minor_axis
      s == s_of(call.latitude[ix], call.longitude[ix], call.goes_imager_projection)
  IN  r_pol * r_pol * s.s_y * s.s_y + r_eq * r_eq * s.s_z * s.s_z
Satisfies(ix) == SideH(ix) >= SideS(ix)

C7_VisibilityCheck ==
  GeoCalled =>
    /\ (\E ix \in BatchPoints : ~Satisfies(ix)) => outcome = "error" /\ result = <<>>
    /\ (\A ix \in BatchPoints : Satisfies(ix)) =>
         outcome = "ok" /\ DOMAIN result = BatchPoints

(* a batch of a visible and of an invisible point has failed as a whole *)
C7_Witness ==
  /\ GeoCalled
  /\ \E ix \in BatchPoints : Satisfies(ix)
  /\ \E ix \in BatchPoints : ~Satisfies(ix)
  /\ outcome = "error"
  /\ result = <<>>

(* a point on the limb (equality) has got its scan angles *)
C7_LimbPointReturned ==
  /\ GeoCalled
  /\ \E ix \in BatchPoints : SideH(ix) = SideS(ix)
  /\ outcome = "ok"
  /\ Len(result) = Len(call.latitude)

(* C11: if any listed catalog entry has a start, end or creation           *)
(* timestamp that cannot be parsed, the whole query fails with an error    *)
(* and returns nothing, whether or not a band filter is in effect.         *)
QueryStart ==
  CASE call.op = "goes_nearesttime" -> call.attime - call.within
    [] call.op = "goes_timerange" -> call.start
    [] call.op = "goes_latest" -> call.now - HourTicks
QueryEnd ==
  CASE call.op = "goes_nearesttime" -> call.attime + call.within
    [] call.op = "goes_timerange" -> call.end
    [] call.op = "goes_latest" -> call.now
Listed ==
  { f \in archive : /\ f.bucket = s_noaa_goes16 /\ f.product = QueryProduct
                    /\ f.hour \in Hour(QueryStart)..Hour(QueryEnd) }
Malformed(f) == f.start < 0 \/ f.end < 0 \/ f.creation < 0
FailedAtParse ==
  /\ outcome = "error" /\ errat = "file_df" /\ result = <<>>
  /\ trace[Len(trace)] = "parse"

C11_MalformedAlwaysFails ==
  (call.op # "none" /\ \E f \in Listed : Malformed(f))
    => (outcome = "error" /\ result = <<>>)

(* C11 as the code has it: the query fails at the conversion of the        *)
(* timestamps, and returns nothing, exactly when a listed entry that the   *)
(* band filter keeps has a timestamp that cannot be parsed; an entry the   *)
(* band filter drops is not converted.                                     *)
C11_MalformedKeptFails ==
  call.op # "none" =>
    ((\E f \in Listed : Malformed(f) /\ BandWanted(f)) <=> FailedAtParse)

(* a well-formed record inside the window is listed with a malformed one,  *)
(* and the query has failed without a result                               *)
C11_Witness ==
  /\ call.op = "goes_timerange" /\ ~IsNone(call.bands)
  /\ \E f \in Listed : Malformed(f) /\ BandWanted(f)
  /\ \E g \in Listed : ~Malformed(g) /\ BandWanted(g)
                         /\ InWindow(g, call.start, call.end)
  /\ FailedAtParse

(* C12: a range query whose filters match zero records completes normally *)
(* with an empty result and raises no error, for every combination of      *)
(* download and return_as.                                                 *)
RetrieveCalled == call.op = "goes_timerange" /\ "download" \in DOMAIN call
ZeroMatches ==
  /\ Listed # {}
  /\ \A f \in Listed : ~InWindow(f, call.start, call.end)

C12_EmptyRangeIsNormal ==
  (RetrieveCalled /\ ZeroMatches) => (outcome = "ok" /\ result = <<>>)

(* C13: every satellite the GOES constructor accepts passes the parameter  *)
(* check of the retrieval the object delegates to: after latest,           *)
(* nearesttime, timerange or single_point_timerange of an object built     *)
(* with satellite 19 or 'noaa-goes19', the call has not failed in          *)
(* _check_param_inputs.                                                    *)
ObjectCalled ==
  call.op \in {"GOES.latest", "GOES.nearesttime", "GOES.timerange",
               "GOES.single_point_timerange"}
C13_ConstructedSatelliteAccepted ==
  (ObjectCalled /\ call.satellite \in {PyInt(19), PyStr(s_noaa_goes19)})
    => ~(outcome = "error" /\ errat = "check_param")

(* the same for 16 and 18, which the parameter check knows *)
C13_KnownSatelliteAccepted ==
  (ObjectCalled /\ call.satellite \in {PyInt(16), PyInt(18)})
    => ~(outcome = "error" /\ errat = "check_param")

(* C18: latest() of a GOES object built with domain 'M1' or 'M2' returns   *)
(* records of that mesoscale sector only.                                  *)
C18_LatestOfObjectSector ==
  (call.op = "GOES.latest" /\ call.domain.str \in MesoSectors /\ outcome = "ok")
    => \A ix \in 1..Len(result) : result[ix].file.scene = call.domain.str

(* C19: in _check_param_inputs every alias of a satellite key, in any      *)
(* case, resolves to that key: a call with the alias returns the key       *)
(* whenever the call with the key itself passes.                           *)
ParamsChecked == call.op = "_check_param_inputs"
IsAliasOf(v, ix) ==
  \E jx \in 1..Len(_satellite[ix].aliases) :
    Upper(PyToStr(v)) = Upper(PyToStr(_satellite[ix].aliases[jx]))
PassesWithKey(ix) ==
  ~_check_param_inputs(PyStr(_satellite[ix].key), call.domain, call.product).err
ResolvedTo(ix) ==
  outcome = "ok" /\ result[1].satellite = _satellite[ix].key
C19_AliasResolvesToItsKey ==
  ParamsChecked =>
    \A ix \in 1..Len(_satellite) :
      (IsAliasOf(call.satellite, ix) /\ PassesWithKey(ix)) => ResolvedTo(ix)

(* an alias resolves to the first key that lists it, and a key to itself *)
C19_AliasResolvesToFirstKey ==
  ParamsChecked =>
    \A ix \in 1..Len(_satellite) :
      (/\ IsAliasOf(call.satellite, ix) \/ call.satellite = PyStr(_satellite[ix].key)
       /\ \A kx \in 1..(ix - 1) : ~IsAliasOf(call.satellite, kx)
       /\ PassesWithKey(ix))
        => ResolvedTo(ix)

(* a value that is neither a key nor an alias is rejected *)
C19_UnknownSatelliteRejected ==
  (/\ ParamsChecked
   /\ ~InKeys(call.satellite, _satellite)
   /\ \A ix \in 1..Len(_satellite) : ~IsAliasOf(call.satellite, ix))
    => (outcome = "error" /\ errat = "check_param")

(* C17: the instrument polygon of a GLM dataset, at every satellite        *)
(* height, lies inside the uncut disk of (16 + 0.15) / 2 degrees, covers   *)
(* less area than the disk and more than none.                             *)
PolygonOfGLM ==
  call.op \in {"field_of_view", "full_disk"} /\ call.G.title = "GLM" /\ outcome = "ok"
UncutDisk ==
  buffer(FOV_radius(1615, sat_height_of(call.G)), PlanePoints(sat_height_of(call.G)))
C17_CutPolygonInsideDisk ==
  PolygonOfGLM =>
    /\ result[1].inst \subseteq UncutDisk
    /\ Cardinality(result[1].inst) < Cardinality(UncutDisk)
    /\ Cardinality(result[1].inst) > 0
C17_Witness ==
  /\ PolygonOfGLM
  /\ call.G.nominal_satellite_height = MaxHeight
  /\ \E p \in UncutDisk : p \notin result[1].inst
  /\ <<0, 0>> \in result[1].inst

(* C15: for every projection a call whose points are all the nadir point   *)
(* (latitude 0, longitude of the projection origin) passes the visibility  *)
(* check, and a call with the antipodal point (latitude 0, origin + 180)   *)
(* fails with the not-visible error.                                       *)
IsNadir(ix) ==
  /\ call.latitude[ix] = 0
  /\ call.longitude[ix] = call.goes_imager_projection.longitude_of_projection_origin
IsAntipode(ix) ==
  /\ call.latitude[ix] = 0
  /\ call.longitude[ix]
       = call.goes_imager_projection.longitude_of_projection_origin + 180
C15_NadirVisibleAntipodeNot ==
  GeoCalled =>
    /\ (\A ix \in BatchPoints : IsNadir(ix)) => outcome = "ok"
    /\ (\E ix \in BatchPoints : IsAntipode(ix))
         => (outcome = "error" /\ errat = "not_visible")
C15_Witness ==
  /\ GeoCalled
  /\ Len(call.latitude) = 1
  /\ IsAntipode(1)
  /\ call.goes_imager_projection.semi_major_axis
       # call.goes_imager_projection.semi_minor_axis
  /\ outcome = "error"

(* C16: scan_angles_to_lat_lon(0, 0) yields latitude 0 and the longitude   *)
(* of the projection origin, and lat_lon_to_scan_angles of that point      *)
(* yields x = 0 and y = 0.                                                 *)
NadirScanned ==
  call.op = "scan_angles_to_lat_lon" /\ call.x = 0 /\ call.y = 0
BackToScanAngles ==
  lat_lon_to_scan_angles(<<result[1].latitude>>, <<result[1].longitude>>,
                         call.goes_imager_projection)
C16_NadirExample ==
  NadirScanned =>
    /\ ~result[1].nan
    /\ result[1].latitude = 0
    /\ result[1].longitude = call.goes_imager_projection.longitude_of_projection_origin
    /\ BackToScanAngles.outcome = "ok"
    /\ BackToScanAngles.result[1].x[1] = 0
    /\ BackToScanAngles.result[1].y[1] = 0
C16_Witness ==
  /\ NadirScanned
  /\ call.goes_imager_projection.longitude_of_projection_origin = -70
  /\ result[1].longitude = -70

(* C14: the forward transform gives back every point that passed the      *)
(* visibility check of lat_lon_to_scan_angles, from the scan angles that   *)
(* were returned for it.  One pair of scan angles is one line of sight,    *)
(* and scan_angles_to_lat_lon gives one point for it: so two different     *)
(* points of a batch that passed the check are never on one line of sight. *)
SightLine(ix) ==
  s_of(call.latitude[ix], call.longitude[ix], call.goes_imager_projection)
OneLineOfSight(s, t) ==
  /\ s.s_x * t.s_y = s.s_y * t.s_x
  /\ s.s_x * t.s_z = s.s_z * t.s_x
  /\ s.s_y * t.s_z = s.s_z * t.s_y
OnePoint(ix, jx) ==
  /\ call.latitude[ix] = call.latitude[jx]
  /\ \/ (call.longitude[ix] - call.longitude[jx]) % 360 = 0
     \/ Abs(call.latitude[ix]) = 90
C14_LineOfSightHasOnePoint ==
  (GeoCalled /\ outcome = "ok") =>
    \A ix \in BatchPoints : \A jx \in BatchPoints :
      OneLineOfSight(SightLine(ix), SightLine(jx)) => OnePoint(ix, jx)

(* C8: when band numbers are requested, no returned record carries a band  *)
(* outside the requested set, for every query, and for an ABI product the  *)
(* band filter is applied before the time filter.                          *)
C8_BandFilter ==
  (call.op # "none" /\ ~IsNone(call.bands)) =>
    /\ \A f \in ResultFiles : f.band # 0 => f.band \in BandsRequested
    /\ (InSeq(trace, "time_filter") /\ IsABIName(call.product))
         => Before(trace, "band_filter", "time_filter")

(* a record of another band lies inside the window and is not returned,    *)
(* a record of a requested band is                                         *)
C8_Witness ==
  /\ call.op \in {"goes_timerange", "goes_latest"} /\ outcome = "ok"
  /\ ~IsNone(call.bands)
  /\ ResultFiles # {}
  /\ \E f \in archive : /\ f.product = QueryProduct /\ f.band \notin BandsRequested
                        /\ \E g \in ResultFiles : g.start = f.start

(* C9: for domain M1 or M2 goes_nearesttime returns only records of that   *)
(* sector, the selected start is the nearest among that sector's           *)
(* candidates, and the sector filter comes before the choice.              *)
C9_SectorBeforeNearest ==
  (NearestOk /\ SectorAsked # <<>>) =>
    /\ \A f \in ResultFiles : f.scene = SectorAsked
    /\ \A t \in ResultStarts : \A f \in NearestCandidates : Distance(t) <= Distance(f.start)
    /\ Before(trace, "meso_filter", "nearest")

(* the other sector holds a start strictly nearer than the returned one *)
C9_Witness ==
  /\ NearestOk /\ SectorAsked # <<>>
  /\ \E g \in archive :
       /\ g.product = QueryProduct /\ BandWanted(g) /\ g.scene # SectorAsked
       /\ InWindow(g, call.attime - call.within, call.attime + call.within)
       /\ \A t \in ResultStarts : Distance(g.start) < Distance(t)

RecognisedDomains ==
  {s_C, s_F, s_M, s_M1, s_M2, s_CONUS, s_FULL, s_FULLDISK, s_FULL_DISK, s_MESOSCALE}
UnrecognisedDomain == IsStr(call.domain) /\ Upper(call.domain.str) \notin RecognisedDomains
UnrecognisedBand == \E b \in BandsRequested : b \notin 1..MaxBand

(* C10 as claimed: a call with an unrecognised domain or band value fails  *)
(* before the archive is listed, whatever the product.                     *)
C10_InvalidRejectedBeforeListing ==
  (call.op # "none" /\ (UnrecognisedDomain \/ UnrecognisedBand)) =>
    (outcome = "error" /\ ~InSeq(trace, "list"))

(* C10, amended: a call with an unrecognised domain and an ABI product     *)
(* whose name does not end in C, F or M fails in the parameter check,      *)
(* before the archive is listed.                                           *)
C10_InvalidDomainRejectedWhenNeeded ==
  ( /\ call.op # "none" /\ UnrecognisedDomain
    /\ IsABIName(call.product) /\ ~HasDomainSuffix(call.product) )
  => (outcome = "error" /\ errat = "check_param" /\ ~InSeq(trace, "list"))

C10_Witness ==
  /\ call.op = "goes_nearesttime" /\ UnrecognisedDomain
  /\ IsABIName(call.product) /\ ~HasDomainSuffix(call.product)
  /\ archive # {}
  /\ outcome = "error"

(* C20: in the download step, with overwrite false a file whose            *)
(* destination exists locally is not fetched and its local copy is left    *)
(* unchanged; with overwrite true every selected file is fetched; a file   *)
(* that does not exist locally is fetched in both cases.                   *)
DownloadStep ==
  /\ call.op = "none"
  /\ call'.op = "goes_timerange" /\ "download" \in DOMAIN call'
  /\ call'.download /\ outcome' = "ok"

C20_OverwriteContract ==
  [][DownloadStep =>
       \A f \in { result'[ix].file : ix \in 1..Len(result') } :
         /\ (is_file(disk, f) /\ ~call'.overwrite)
              => (f \notin fetched' /\ [file |-> f, copy |-> "old"] \in disk')
         /\ call'.overwrite => f \in fetched'
         /\ ~is_file(disk, f) => f \in fetched'
         /\ f \in fetched' => [file |-> f, copy |-> "new"] \in disk']_vars

(* with overwrite false, one selected file was there and is kept, another  *)
(* was not there and is fetched                                            *)
C20_Witness ==
  /\ RetrieveCalled /\ call.download /\ ~call.overwrite /\ outcome = "ok"
  /\ \E f \in ResultFiles : f \notin fetched /\ [file |-> f, copy |-> "old"] \in disk
  /\ \E g \in ResultFiles : g \in fetched /\ [file |-> g, copy |-> "new"] \in disk

(* C21: the GOES constructor makes the bucket name 'noaa-goesN' of the     *)
(* satellite: of an integer N and of a string with the digits N;           *)
(* 'EAST' and 'WEST' give 'noaa-goes16' and 'noaa-goes17'; the name it     *)
(* made is left as it is when given again; and the domain 'C' given with   *)
(* the default product is the domain of the object.                        *)
Constructing == call.op = "GOES"
BucketOf(satellite) ==
  IF IsInt(satellite) THEN s_noaa_goes \o StrOfInt(satellite.int)
  ELSE IF Upper(satellite.str) = s_EAST THEN s_noaa_goes16
  ELSE IF Upper(satellite.str) = s_WEST THEN s_noaa_goes17
  ELSE s_noaa_goes \o OnlyDigits(satellite.str)
DefaultProductWithC == call.product = s_MCMIP /\ call.domain = PyStr(s_C)
C21_SatelliteNormalised ==
  Constructing =>
    /\ outcome = "ok" =>
         /\ result[1].satellite = BucketOf(call.satellite)
         /\ GOES(PyStr(result[1].satellite), call.product, call.domain,
                 PyNone).satellite = result[1].satellite
    /\ (DefaultProductWithC /\ ~IsNone(call.satellite)) =>
         (outcome = "ok" /\ result[1].domain = PyStr(s_C))
C21_Witness ==
  /\ Constructing /\ outcome = "ok"
  /\ call.satellite = PyStr(s_noaa_goes19)
  /\ DefaultProductWithC
  /\ result[1].satellite = s_noaa_goes19
  /\ result[1].domain = PyStr(s_C)

(* C22: goes_timerange and goes_single_point_timerange need start and end, *)
(* or recent: with recent None and start or end missing the call fails     *)
(* before a directory of the archive is listed; a start and end that are   *)
(* both given and are not datetimes, and a recent that is given and is not *)
(* a timedelta, make it fail before the listing as well.                   *)
WindowCalled ==
  /\ call.op \in {"goes_timerange", "goes_single_point_timerange"}
  /\ "recent" \in DOMAIN call
DatetimeLike(v) == hasattr_second(v) \/ (IsStr(v) /\ ~ParsedDatetime(v).err)
TimedeltaLike(v) == hasattr_seconds(v) \/ (IsStr(v) /\ ~ParsedTimedelta(v).err)
FailedBeforeListing == outcome = "error" /\ ~InSeq(trace, "list")
C22_WindowArguments ==
  WindowCalled =>
    /\ (IsNone(call.recent) /\ (IsNone(call.start) \/ IsNone(call.end)))
         => FailedBeforeListing
    /\ (/\ ~IsNone(call.start) /\ ~IsNone(call.end)
        /\ ~(DatetimeLike(call.start) /\ DatetimeLike(call.end)))
         => FailedBeforeListing
    /\ (~IsNone(call.recent) /\ ~TimedeltaLike(call.recent))
         => FailedBeforeListing
(* start alone is given, and nothing was listed *)
C22_Witness ==
  /\ WindowCalled
  /\ hasattr_second(call.start) /\ IsNone(call.end) /\ IsNone(call.recent)
  /\ call.satellite = PyInt(16)
  /\ outcome = "error" /\ errat = "assert_required"
  /\ ~InSeq(trace, "list")
(* start and end are datetimes and recent is a number: the assertions pass *)
(* and the subtraction fails                                               *)
C22_RecentUnchecked ==
  /\ WindowCalled
  /\ hasattr_second(call.start) /\ hasattr_second(call.end) /\ IsInt(call.recent)
  /\ outcome = "error" /\ errat = "utcnow_minus_recent"
(* a call with its arguments in order lists the archive *)
C22_Listed ==
  /\ WindowCalled
  /\ hasattr_second(call.start) /\ hasattr_second(call.end) /\ IsNone(call.recent)
  /\ outcome = "ok" /\ InSeq(trace, "list")

(* C23: for a GLM dataset, which has no goes_imager_projection variable,   *)
(* ds.FOV.full_disk returns the disk cut by the square and does not fail,  *)
(* and ds.FOV.domain fails with the error that there is no domain polygon. *)
AccessorOfGLM ==
  /\ call.op \in {"full_disk", "domain"}
  /\ call.G.title = "GLM"
  /\ ~call.G.goes_imager_projection
C23_AccessorServesGLM ==
  AccessorOfGLM =>
    /\ call.op = "full_disk" =>
         /\ outcome = "ok"
         /\ result[1].inst = UncutDisk \cap cutout(sat_height_of(call.G),
                                                   PlanePoints(sat_height_of(call.G)))
    /\ call.op = "domain" => (outcome = "error" /\ errat = "domain")
(* what the accessor does for such a dataset: both properties fail where   *)
(* the accessor is made                                                    *)
C23_AccessorNotMade ==
  AccessorOfGLM => (outcome = "error" /\ errat = "accessor")

(* C24: goes_latest returns exactly the records with the greatest start    *)
(* among the candidates, which are the records of the last hour that the   *)
(* band filter and the sector filter have left: every returned record has  *)
(* that start, every candidate with that start is returned, once, and no   *)
(* candidate starts later.                                                 *)
LatestOk == call.op = "goes_latest" /\ outcome = "ok"
(* goes_latest filters by the sector when the domain that comes back from  *)
(* the parameter check is M1 or M2, which is when the product was given    *)
(* without its domain letter                                               *)
LatestSectorWanted(f) ==
  SectorAsked = <<>> \/ HasDomainSuffix(call.product) \/ f.scene = SectorAsked
LatestCandidates ==
  { f \in archive : /\ f.bucket = s_noaa_goes16 /\ f.product = QueryProduct
                    /\ InWindow(f, call.now - HourTicks, call.now)
                    /\ BandWanted(f) /\ LatestSectorWanted(f) }
C24_LatestIsMaximumStart ==
  LatestOk =>
    /\ ResultFiles \subseteq LatestCandidates
    /\ Cardinality(ResultStarts) <= 1
    /\ \A f \in ResultFiles : \A g \in LatestCandidates : g.start <= f.start
    /\ \A g \in LatestCandidates :
         (\A h \in LatestCandidates : h.start <= g.start) => g \in ResultFiles
    /\ Len(result) = Cardinality(ResultFiles)
(* two records share the greatest start and both are returned *)
C24_Witness ==
  /\ LatestOk
  /\ Cardinality(ResultFiles) = 2
  /\ Cardinality(ResultStarts) = 1
(* an earlier candidate is left out *)
C24_EarlierLeftOut ==
  /\ LatestOk
  /\ Cardinality(ResultFiles) = 1
  /\ \E g \in LatestCandidates : g \notin ResultFiles

(* C25: goes_nearesttime called with domain None for a product that is not *)
(* an ABI product, once the files are listed and filtered, passes the      *)
(* sector filter without an error and goes on to select the nearest time.  *)
NoDomainNeeded(op) ==
  /\ call.op = op
  /\ IsNone(call.domain) /\ ~IsABIName(call.product)
  /\ InSeq(trace, "time_filter")
C25_NearestWithoutDomain ==
  NoDomainNeeded("goes_nearesttime") =>
    (errat # "domain_upper" /\ InSeq(trace, "nearest"))
(* goes_latest does so *)
C25_LatestWithoutDomain ==
  NoDomainNeeded("goes_latest") => (outcome = "ok" /\ InSeq(trace, "latest"))
(* goes_nearesttime fails at domain.upper() instead *)
C25_NearestFailsAtDomain ==
  NoDomainNeeded("goes_nearesttime") => (outcome = "error" /\ errat = "domain_upper")


----------------------------------------------------------------------------
(* C26: _download with n >= 1 files has exactly one task per file, never   *)
(* runs more than n nor more than max_threads of them at a time, has       *)
(* returned only when every task has finished; when it returned without    *)
(* error every file of df.file is at save_dir/<file>, and when the fetch   *)
(* of a task raised the call ends in that error.                           *)
PoolCalled == call.op = "_download" /\ pool.main # "none"
PoolReturned == PoolCalled /\ pool.main = "returned"
C26_OneTaskPerFileAllAwaited ==
  PoolCalled =>
    /\ Len(call.files) >= 1
    /\ DOMAIN pool.task = DOMAIN call.files
    /\ Cardinality(Running(pool.task)) <= Len(call.files)
    /\ Cardinality(Running(pool.task)) <= call.max_threads
    /\ (outcome # "none" <=> pool.main = "returned")
    /\ pool.main = "returned" => Finished(pool.task)
    /\ outcome = "ok" =>
         \A ix \in DOMAIN call.files :
           pool.task[ix] = "done" /\ is_file(disk, call.files[ix])
    /\ (pool.main = "returned" /\ \E ix \in DOMAIN pool.task : pool.task[ix] = "get_raised")
         => outcome = "error"

(* two files were fetched one after the other by one thread *)
C26_Witness ==
  /\ PoolReturned
  /\ outcome = "ok"
  /\ Len(call.files) = 2
  /\ call.max_threads = 1
  /\ Cardinality(fetched) = 2

(* the fetch of one task raised while the other file was written: the call *)
(* ended in the error after both tasks had finished                        *)
C26_FetchErrorPropagates ==
  /\ PoolReturned
  /\ outcome = "error"
  /\ \E ix \in DOMAIN pool.task : pool.task[ix] = "get_raised"
  /\ \E ix \in DOMAIN pool.task : pool.task[ix] = "done"

(* C27: of the threads whose files go to a directory that is not there,    *)
(* none fails at the is_dir test and the mkdir that follows it, whatever   *)
(* the order of their steps, and a thread that is about to fetch has its   *)
(* directory.                                                              *)
MadeMeanwhile(ix) ==
  /\ pool.task[ix] \in {"mkdir", "mkdir_again"}
  /\ ParentDir(call.files[ix]) \in dirs
C27_DirectoryRaceIsSafe ==
  PoolCalled =>
    \A ix \in DOMAIN pool.task :
      /\ pool.task[ix] # "mkdir_raised"
      /\ pool.task[ix] \in {"is_file", "get", "done", "get_raised"}
           => ParentDir(call.files[ix]) \in dirs

(* a thread found the directory missing and is at mkdir when another       *)
(* thread has made it                                                      *)
C27_Witness ==
  /\ PoolCalled
  /\ \E ix \in DOMAIN pool.task : MadeMeanwhile(ix)

(* both threads went on to fetch after such a race *)
C27_RaceThenFetched ==
  /\ PoolReturned
  /\ outcome = "ok"
  /\ Cardinality(fetched) = 2
  /\ \E f \in fetched : \E g \in fetched : f # g /\ ParentDir(f) = ParentDir(g)


----------------------------------------------------------------------------
(* C28: for a window from start to end, _goes_file_df lists one directory  *)
(* for every whole hour from the hour of start to the hour of end, each    *)
(* once and no other; no file is twice in the table, and every record of   *)
(* the archive with start >= window start and end <= window end is a row   *)
(* of it, also when the window goes over the end of a day or of a year.    *)
DateCalled == call.op = "_goes_file_df" /\ call.start <= call.end
WholeHours(start, end) == { t \div HourTicks : t \in start..end }
C28_EveryHourListedOnce ==
  DateCalled =>
    /\ Len(trace) = Cardinality(WholeHours(call.start, call.end))
    /\ \A ix \in DOMAIN trace : \A jx \in DOMAIN trace :
         trace[ix] = trace[jx] => ix = jx
    /\ \A f \in DatedFiles :
         f.start \div HourTicks \in WholeHours(call.start, call.end)
           <=> \E ix \in DOMAIN trace : trace[ix] = f.hour
    /\ (\E f \in archive : InWindow(f, call.start, call.end)) => outcome = "ok"
    /\ outcome = "ok" =>
         /\ \A ix \in DOMAIN result : \A jx \in DOMAIN result :
              result[ix].file = result[jx].file => ix = jx
         /\ \A f \in archive :
              InWindow(f, call.start, call.end) <=> \E ix \in DOMAIN result : result[ix].file = f

(* a window from the last hour of 2020 into the first of 2021, with a      *)
(* record of either year in the table                                      *)
C28_Witness ==
  /\ DateCalled
  /\ outcome = "ok"
  /\ \E ix \in DOMAIN trace : trace[ix] = <<2020, 366, 23>>
  /\ \E ix \in DOMAIN trace : trace[ix] = <<2021, 1, 0>>
  /\ \E ix \in DOMAIN result : result[ix].file.hour[1] = 2020
  /\ \E ix \in DOMAIN result : result[ix].file.hour[1] = 2021

(* a window over the end of a day that is not the end of the year: from    *)
(* the 59th day of 2020 into the 60th, the 29th of February                *)
C28_OverMidnight ==
  /\ DateCalled
  /\ outcome = "ok"
  /\ trace = <<<<2020, 59, 22>>, <<2020, 59, 23>>, <<2020, 60, 0>>>>
  /\ Len(result) = 2
  /\ strftime_Ymd_H(call.end) = [year |-> 2020, month |-> 2, day |-> 29, hour |-> 0]


----------------------------------------------------------------------------
(* C29: goes_single_point_timerange with return_as="xarray" and download   *)
(* opens every selected file at the path where the download of this call   *)
(* has it, save_dir joined with the file, whatever save_dir is.            *)
SinglePointCalled ==
  /\ call.op = "goes_single_point_timerange"
  /\ call.return_as = "xarray"
  /\ call.download
  /\ "download" \in { trace[ix] : ix \in DOMAIN trace }
  /\ errat # "download"
C29_OpensWhereStored ==
  SinglePointCalled =>
    /\ outcome = "ok"
    /\ \A ix \in DOMAIN result :
         result[ix].path = dst(call.save_dir, result[ix].file)

(* what the code does: the paths opened are below the configured directory *)
(* whatever save_dir is                                                    *)
C29_OpensConfiguredDirectory ==
  SinglePointCalled =>
    \A ix \in DOMAIN result : result[ix].path.dir = config_save_dir

(* with save_dir the configured directory the files are opened where they  *)
(* were stored                                                             *)
C29_ConfiguredDirectoryWorks ==
  (SinglePointCalled /\ call.save_dir = config_save_dir) =>
    /\ outcome = "ok"
    /\ \A ix \in DOMAIN result :
         result[ix].path = dst(call.save_dir, result[ix].file)

(* the files were fetched to another directory and are not found *)
C29_NotFound ==
  /\ SinglePointCalled
  /\ call.save_dir # config_save_dir
  /\ fetched # {}
  /\ outcome = "error"
  /\ errat = "open_mfdataset"

(* the file was fetched anew to another directory and the copy of an       *)
(* earlier call below the configured directory was opened                  *)
C29_OlderCopyOpened ==
  /\ SinglePointCalled
  /\ call.save_dir # config_save_dir
  /\ outcome = "ok"
  /\ \E ix \in DOMAIN result :
       result[ix].copy = "old" /\ result[ix].file \in fetched

====
